---- MODULE Spec2Model ----
(***************************************************************************)
(* Model of the two decision engines of Arduino-Home-Automation:           *)
(*   AutomationController  (src/src/AutomationController.cpp)              *)
(*   ScheduleController    (src/src/ScheduleController.cpp)                *)
(* Both are single-threaded and run to completion, so every public method  *)
(* is one atomic action.  The relay callback is modelled by the list of    *)
(* invocations the last operation made (calls).                            *)
(* rules[], schedules[] and timers[] are modelled by their slots below     *)
(* ruleCount, scheduleCount and timerCount, as sequences: slot i of the    *)
(* code is element i + 1.  The code never reads a slot at or above the     *)
(* count before writing all of it.                                         *)
(***************************************************************************)
EXTENDS Integers, Sequences, FiniteSets, TLC

(***************************************************************************)
(* Program constants (src/src/Config.h)                                    *)
(***************************************************************************)
RELAY_COUNT == 5
MAX_AUTOMATION_RULES == 5
TEMP_HYSTERESIS == 2
TEMP_THRESHOLD_HIGH == 28
MAX_SCHEDULES == 6
MAX_TIMERS == 5
RELAY_GUEST_ROOM == 2
SCHEDULE_DAILY == 127

(***************************************************************************)
(* Bounds of the model                                                     *)
(***************************************************************************)
\* rules added before the rule list is cleared or shrunk again
MaxRules == 1
\* milliseconds between boot and the first call of the automation specification
BootDelay == 500
\* width in bits of the millisecond counter (unsigned long), scaled down
MillisBits == 12
\* timers created in one run (each gets a fresh ghost identity)
MaxAdds == 3
\* schedules added in one run of the schedule specification
MaxScheds == 2
\* timers created in one run of the specification without a time source
MaxIdleTimers == 1
\* milliseconds explored on either side of the wrap of the millisecond counter
WrapMargin == 3000
\* rules, and schedules, held at once in the specification of removal
MaxHeld == 3
\* rules added in the specification of rule actions
MaxActing == 2
\* timers created in one run of the specification of the timer slots
MaxSlotAdds == 6
\* timers created in one run of the specification of update called for ever
MaxLiveAdds == 2

U8 == 2 ^ 8
MillisMod == 2 ^ MillisBits
\* the true (unwrapped) millisecond clock is explored up to here
MaxMillis == MillisMod + WrapMargin

VARIABLES
  \* AutomationController
  rules, ruleCount, automationEnabled, lastTemperature,
  \* ScheduleController
  schedules, scheduleCount, timers, timerCount, rtcAvailable, lastMinute,
  \* environment
  realMillis,   \* milliseconds since boot, not wrapped; millis() wraps it
  rtcBuild,     \* TRUE when the RTC blocks of ScheduleController.cpp are compiled in
  rtcNow,       \* what the RTC reports: [hour, minute, dow]
  sdSchedules,  \* the schedule file: [exists, data], data = its bytes
  sdRules,      \* the automation rule file: [exists, data], data = its bytes
  saved,        \* ghost: the collections as of the last successful saveToSD
  \* observation of the last operation
  op,           \* <<name>>; update: <<name, callback given>>;
                \* evaluate: <<name, callback given, currentTemp>>;
                \* addTimer: <<name, relayId, durationSeconds, turnOffWhenExpired>>;
                \* loadFromSD: <<name, records read, open succeeds>>;
                \* addRule, addSchedule: <<name, arguments>>;
                \* removeRule, removeSchedule: <<name, index>>;
                \* cancelTimer: <<name, relayId>>;
                \* setRuleEnabled: <<name, index, enabled>>
  ret,          \* its return value (TRUE for void operations)
  calls,        \* callback invocations it made, in order (given, in those of
                \* a rule, is ghost: the relayStates array executeAction got)
  \* ghost history of the timers
  nextId,       \* identity given to the next timer created
  fired,        \* identities of the timers whose expiry invoked or reached the callback
  \* pure-function probe (shouldScheduleBeActive)
  probe,
  \* ghost: what the most recent callback invocation for RELAY_GUEST_ROOM
  \* asked for: "on", "off", or "none" before the first one
  guestRoomAsked

autoVars == <<rules, ruleCount, automationEnabled, lastTemperature>>
schedVars == <<schedules, scheduleCount, rtcAvailable, lastMinute>>
timerVars == <<timers, timerCount, nextId, fired>>
envVars == <<rtcBuild, rtcNow, sdSchedules, sdRules, saved>>
vars == <<rules, ruleCount, automationEnabled, lastTemperature,
          schedules, scheduleCount, timers, timerCount, rtcAvailable, lastMinute,
          realMillis, rtcBuild, rtcNow, sdSchedules, sdRules, saved, op, ret, calls, nextId, fired, probe, guestRoomAsked>>

\* what the last invocation for RELAY_GUEST_ROOM among cs asked for, or
\* before when cs has none (ghost)
LastAsked(cs, before) ==
  LET ForGuestRoom(c) == c.relayId = RELAY_GUEST_ROOM
      mine == SelectSeq(cs, ForGuestRoom)
  IN IF mine = <<>> THEN before
     ELSE IF mine[Len(mine)].state THEN "on" ELSE "off"

\* millis(): the free-running unsigned counter
millis == realMillis % MillisMod

(***************************************************************************)
(* AutomationController                                                    *)
(***************************************************************************)
\* the slots in use: 0 .. count - 1
RuleSlots == 0 .. (ruleCount - 1)
ScheduleSlots == 0 .. (scheduleCount - 1)
TimerSlots == 0 .. (timerCount - 1)

\* evaluateCondition computing the hysteresis bounds in 8-bit arithmetic, so
\* that threshold - hysteresis and threshold + hysteresis wrap around
evaluateCondition_wrapped(rule, currentTemp) ==
  CASE rule.triggerType = "TEMP_HIGH" ->
         IF rule.currentlyTriggered
           THEN currentTemp >= ((rule.threshold - rule.hysteresis) % U8)
           ELSE currentTemp >= rule.threshold
    [] rule.triggerType = "TEMP_LOW" ->
         IF rule.currentlyTriggered
           THEN currentTemp <= ((rule.threshold + rule.hysteresis) % U8)
           ELSE currentTemp <= rule.threshold
    [] rule.triggerType = "TEMP_RANGE" ->
         (currentTemp >= rule.threshold) /\ (currentTemp <= rule.thresholdHigh)
    [] OTHER -> FALSE

\* evaluateCondition that widens the range of a triggered range rule by the
\* hysteresis, as it does for the other two kinds
evaluateCondition_rangeband(rule, currentTemp) ==
  CASE rule.triggerType = "TEMP_HIGH" ->
         IF rule.currentlyTriggered
           THEN currentTemp >= (rule.threshold - rule.hysteresis)
           ELSE currentTemp >= rule.threshold
    [] rule.triggerType = "TEMP_LOW" ->
         IF rule.currentlyTriggered
           THEN currentTemp <= (rule.threshold + rule.hysteresis)
           ELSE currentTemp <= rule.threshold
    [] rule.triggerType = "TEMP_RANGE" ->
         IF rule.currentlyTriggered
           THEN /\ currentTemp >= (rule.threshold - rule.hysteresis)
                /\ currentTemp <= (rule.thresholdHigh + rule.hysteresis)
           ELSE (currentTemp >= rule.threshold) /\ (currentTemp <= rule.thresholdHigh)
    [] OTHER -> FALSE

\* evaluateCondition without the hysteresis band: one static comparison
evaluateCondition_static(rule, currentTemp) ==
  CASE rule.triggerType = "TEMP_HIGH" -> currentTemp >= rule.threshold
    [] rule.triggerType = "TEMP_LOW" -> currentTemp <= rule.threshold
    [] rule.triggerType = "TEMP_RANGE" ->
         (currentTemp >= rule.threshold) /\ (currentTemp <= rule.thresholdHigh)
    [] OTHER -> FALSE

\* bool evaluateCondition(rule, currentTemp); the uint8_t operands are promoted
\* to int, so threshold - hysteresis and threshold + hysteresis do not wrap
evaluateCondition(rule, currentTemp) ==
  CASE rule.triggerType = "TEMP_HIGH" ->
         IF rule.currentlyTriggered
           THEN currentTemp >= (rule.threshold - rule.hysteresis)
           ELSE currentTemp >= rule.threshold
    [] rule.triggerType = "TEMP_LOW" ->
         IF rule.currentlyTriggered
           THEN currentTemp <= (rule.threshold + rule.hysteresis)
           ELSE currentTemp <= rule.threshold
    [] rule.triggerType = "TEMP_RANGE" ->
         (currentTemp >= rule.threshold) /\ (currentTemp <= rule.thresholdHigh)
    [] OTHER -> FALSE

\* executeAction that resolves a toggle against slot 0 of relayStates
executeAction_slot0(rule, i, relayStates, relayCallback) ==
  IF rule.relayId >= RELAY_COUNT \/ ~relayCallback
    THEN <<>>
    ELSE <<[by |-> "rule", relayId |-> rule.relayId,
            state |-> CASE rule.action = "TURN_ON" -> TRUE
                        [] rule.action = "TURN_OFF" -> FALSE
                        [] OTHER -> ~relayStates[0],
            src |-> i, given |-> relayStates]>>

\* executeAction that checks the relay id but not the callback pointer
executeAction_nullcall(rule, i, relayStates, relayCallback) ==
  IF rule.relayId >= RELAY_COUNT
    THEN <<>>
    ELSE <<[by |-> "rule", relayId |-> rule.relayId, state |-> rule.action = "TURN_ON",
            src |-> i, given |-> relayStates]>>

\* void executeAction(rule, relayStates, relayCallback): the callback
\* invocations it makes (none or one); i is the slot of the rule (ghost)
executeAction(rule, i, relayStates, relayCallback) ==
  IF rule.relayId >= RELAY_COUNT \/ ~relayCallback
    THEN <<>>
    ELSE CASE rule.action = "TURN_ON" ->
                <<[by |-> "rule", relayId |-> rule.relayId, state |-> TRUE, src |-> i,
                   given |-> relayStates]>>
           [] rule.action = "TURN_OFF" ->
                <<[by |-> "rule", relayId |-> rule.relayId, state |-> FALSE, src |-> i,
                   given |-> relayStates]>>
           [] rule.action = "TOGGLE" ->
                <<[by |-> "rule", relayId |-> rule.relayId,
                   state |-> ~relayStates[rule.relayId], src |-> i,
                   given |-> relayStates]>>
           [] OTHER -> <<>>

\* loop body that marks a rule as triggered only when its relay exists
EvalRule_valid(rule, currentTemp, now) ==
  IF ~rule.enabled THEN rule
  ELSE LET conditionMet == evaluateCondition(rule, currentTemp) IN
       IF conditionMet /\ ~rule.currentlyTriggered /\ rule.relayId < RELAY_COUNT
         THEN [rule EXCEPT !.currentlyTriggered = TRUE, !.lastTriggerTime = now]
       ELSE IF ~conditionMet /\ rule.currentlyTriggered
         THEN [rule EXCEPT !.currentlyTriggered = FALSE]
       ELSE rule

\* loop body that clears the triggered flag of a disabled rule
EvalRule_reset(rule, currentTemp, now) ==
  IF ~rule.enabled THEN [rule EXCEPT !.currentlyTriggered = FALSE]
  ELSE LET conditionMet == evaluateCondition(rule, currentTemp) IN
       IF conditionMet /\ ~rule.currentlyTriggered
         THEN [rule EXCEPT !.currentlyTriggered = TRUE, !.lastTriggerTime = now]
       ELSE IF ~conditionMet /\ rule.currentlyTriggered
         THEN [rule EXCEPT !.currentlyTriggered = FALSE]
       ELSE rule

\* body of the for loop of evaluate for one rule: the rule afterwards
EvalRule(rule, currentTemp, now) ==
  IF ~rule.enabled THEN rule
  ELSE LET conditionMet == evaluateCondition(rule, currentTemp) IN
       IF conditionMet /\ ~rule.currentlyTriggered
         THEN [rule EXCEPT !.currentlyTriggered = TRUE, !.lastTriggerTime = now]
       ELSE IF ~conditionMet /\ rule.currentlyTriggered
         THEN [rule EXCEPT !.currentlyTriggered = FALSE]
       ELSE rule

\* level-triggered variant: the action runs whenever the condition is met
EvalRuleCalls_level(rule, i, currentTemp, relayStates, relayCallback) ==
  IF rule.enabled /\ evaluateCondition(rule, currentTemp)
    THEN executeAction(rule, i, relayStates, relayCallback)
    ELSE <<>>

\* body of the for loop of evaluate for one rule: the callback invocations
EvalRuleCalls(rule, i, currentTemp, relayStates, relayCallback) ==
  IF rule.enabled /\ evaluateCondition(rule, currentTemp) /\ ~rule.currentlyTriggered
    THEN executeAction(rule, i, relayStates, relayCallback)
    ELSE <<>>

\* the array relayStates points to, after the callback was invoked as in
\* made: the callback belongs to the sketch and leaves the array handed to
\* evaluate as it is
AfterCallback(relayStates, made) == relayStates

\* the for loop of evaluate with each requested state written into the
\* array before the next rule is looked at
RECURSIVE EvalCallsFrom_live(_, _, _, _, _)
EvalCallsFrom_live(i, rs, currentTemp, relayStates, relayCallback) ==
  IF i >= ruleCount THEN <<>>
  ELSE LET made == EvalRuleCalls(rs[i + 1], i, currentTemp, relayStates, relayCallback)
           written == IF made = <<>> THEN relayStates
                      ELSE [relayStates EXCEPT ![made[1].relayId] = made[1].state]
       IN made \o EvalCallsFrom_live(i + 1, rs, currentTemp, written, relayCallback)

\* the for loop of evaluate from rule i on, in slot order
RECURSIVE EvalCallsFrom(_, _, _, _, _)
EvalCallsFrom(i, rs, currentTemp, relayStates, relayCallback) ==
  IF i >= ruleCount THEN <<>>
  ELSE LET made == EvalRuleCalls(rs[i + 1], i, currentTemp, relayStates, relayCallback)
       IN made \o EvalCallsFrom(i + 1, rs, currentTemp,
                                AfterCallback(relayStates, made), relayCallback)

\* evaluate that ignores the global switch
EvaluateSkipped_never == FALSE

\* the early return of evaluate: automation is disabled globally
EvaluateSkipped == ~automationEnabled

\* void evaluate(currentTemp, relayStates, relayCallback)
evaluate(currentTemp, relayStates, relayCallback) ==
  /\ op' = <<"evaluate", relayCallback, currentTemp>>
  /\ ret' = TRUE
  /\ IF EvaluateSkipped
       THEN /\ calls' = <<>>
            /\ UNCHANGED autoVars
       ELSE /\ lastTemperature' = currentTemp
            /\ rules' = [k \in 1 .. ruleCount |-> EvalRule(rules[k], currentTemp, millis)]
            /\ calls' = EvalCallsFrom(0, rules, currentTemp, relayStates, relayCallback)
            /\ UNCHANGED <<ruleCount, automationEnabled>>
  /\ guestRoomAsked' = LastAsked(calls', guestRoomAsked)
  /\ UNCHANGED <<schedVars, timerVars, envVars, realMillis, probe>>

\* the rule addRule writes into slot ruleCount; thresholdHigh is a uint8_t
NewRule(relayId, triggerType, action, threshold) ==
  [relayId |-> relayId, triggerType |-> triggerType, action |-> action,
   threshold |-> threshold, thresholdHigh |-> (threshold + 10) % U8,
   enabled |-> TRUE, currentlyTriggered |-> FALSE,
   hysteresis |-> TEMP_HYSTERESIS, lastTriggerTime |-> 0]

\* addRule that accepts one rule beyond the capacity and the relay id RELAY_COUNT
addRule_rejected_late(relayId) ==
  ruleCount > MAX_AUTOMATION_RULES \/ relayId > RELAY_COUNT
\* addRule returns false: no space, or invalid relay id
addRule_rejected(relayId) ==
  ruleCount >= MAX_AUTOMATION_RULES \/ relayId >= RELAY_COUNT

\* bool addRule(relayId, triggerType, action, threshold)
addRule(relayId, triggerType, action, threshold) ==
  /\ op' = <<"addRule", relayId, triggerType, action, threshold>>
  /\ calls' = <<>>
  /\ IF addRule_rejected(relayId)
       THEN /\ ret' = FALSE
            /\ UNCHANGED autoVars
       ELSE /\ rules' = Append(rules, NewRule(relayId, triggerType, action, threshold))
            /\ ruleCount' = ruleCount + 1
            /\ ret' = TRUE
            /\ UNCHANGED <<automationEnabled, lastTemperature>>
  /\ UNCHANGED <<schedVars, timerVars, envVars, realMillis, probe, guestRoomAsked>>

\* removal that drops the last entry instead of the indexed one
RemovedAt_last(entries, index) == SubSeq(entries, 1, Len(entries) - 1)
\* for (i = index; i < count - 1; i++) entries[i] = entries[i + 1]; count--
RemovedAt(entries, index) ==
  [k \in 1 .. (Len(entries) - 1) |-> IF k - 1 >= index THEN entries[k + 1] ELSE entries[k]]

\* bool removeRule(index)
removeRule(index) ==
  /\ op' = <<"removeRule", index>>
  /\ calls' = <<>>
  /\ IF index >= ruleCount
       THEN /\ ret' = FALSE
            /\ UNCHANGED autoVars
       ELSE /\ rules' = RemovedAt(rules, index)
            /\ ruleCount' = ruleCount - 1
            /\ ret' = TRUE
            /\ UNCHANGED <<automationEnabled, lastTemperature>>
  /\ UNCHANGED <<schedVars, timerVars, envVars, realMillis, probe, guestRoomAsked>>

\* void setRuleEnabled(index, enabled)
setRuleEnabled(index, enabled) ==
  /\ op' = <<"setRuleEnabled", index, enabled>>
  /\ calls' = <<>>
  /\ ret' = TRUE
  /\ rules' = IF index < ruleCount
                THEN [rules EXCEPT ![index + 1].enabled = enabled]
                ELSE rules
  /\ UNCHANGED <<ruleCount, automationEnabled, lastTemperature>>
  /\ UNCHANGED <<schedVars, timerVars, envVars, realMillis, probe, guestRoomAsked>>

\* void setAutomationEnabled(enabled)
setAutomationEnabled(enabled) ==
  /\ op' = <<"setAutomationEnabled">>
  /\ calls' = <<>>
  /\ ret' = TRUE
  /\ automationEnabled' = enabled
  /\ UNCHANGED <<rules, ruleCount, lastTemperature>>
  /\ UNCHANGED <<schedVars, timerVars, envVars, realMillis, probe, guestRoomAsked>>

\* void clearAllRules()
clearAllRules ==
  /\ op' = <<"clearAllRules">>
  /\ calls' = <<>>
  /\ ret' = TRUE
  /\ ruleCount' = 0
  /\ rules' = <<>>
  /\ UNCHANGED <<automationEnabled, lastTemperature>>
  /\ UNCHANGED <<schedVars, timerVars, envVars, realMillis, probe, guestRoomAsked>>

(***************************************************************************)
(* ScheduleController: timers                                              *)
(***************************************************************************)
\* elapsed time taking the counter as a signed quantity: no time has passed
\* when the counter reads less than the start time
Elapsed_nowrap(now, start) == IF now >= start THEN now - start ELSE 0

\* unsigned long elapsed = currentTime - timer.startTime  (unsigned, wraps)
Elapsed(now, start) == (now - start) % MillisMod

\* expiry test that needs the elapsed seconds to exceed the duration
Expired_strict(timer, now) == (Elapsed(now, timer.startTime) \div 1000) > timer.duration

\* expiry test rounding the elapsed seconds up instead of down
Expired_roundup(timer, now) ==
  ((Elapsed(now, timer.startTime) + 999) \div 1000) >= timer.duration

\* elapsedSeconds >= timer.duration, with elapsedSeconds = elapsed / 1000
Expired(timer, now) == (Elapsed(now, timer.startTime) \div 1000) >= timer.duration

\* the expiry sweep of updateTimers for one timer: the timer afterwards
SweepTimer(timer, now) ==
  IF timer.enabled /\ Expired(timer, now)
    THEN [timer EXCEPT !.enabled = FALSE]
    ELSE timer

\* the expiry sweep for the timer in slot i: the callback invocations
\* (the timer field of an invocation is ghost: the timer that expired)
SweepCall(timer, i, now, relayCallback) ==
  IF timer.enabled /\ Expired(timer, now) /\ relayCallback
    THEN <<[by |-> "timer", relayId |-> timer.relayId,
            state |-> ~timer.turnOffWhenExpired, src |-> i, timer |-> timer]>>
    ELSE <<>>

RECURSIVE SweepCallsFrom(_, _, _, _)
SweepCallsFrom(i, ts, now, relayCallback) ==
  IF i >= timerCount THEN <<>>
  ELSE SweepCall(ts[i + 1], i, now, relayCallback)
       \o SweepCallsFrom(i + 1, ts, now, relayCallback)

\* compaction that fills the slots from the last enabled timer to the first
Compact_reversed(ts) ==
  LET IsEnabled(tm) == tm.enabled
      keep == SelectSeq(ts, IsEnabled)
  IN [k \in 1 .. Len(keep) |-> keep[Len(keep) + 1 - k]]

\* the compaction loop of updateTimers: the enabled timers are copied down
\* in order and timerCount becomes their number
RECURSIVE Compact(_)
Compact(ts) ==
  IF ts = <<>> THEN <<>>
  ELSE (IF Head(ts).enabled THEN <<Head(ts)>> ELSE <<>>) \o Compact(Tail(ts))

\* findTimerIndex that takes the relay's first slot, enabled or not
findTimerIndex_any(relayId) ==
  LET hits == {i \in TimerSlots : timers[i + 1].relayId = relayId}
  IN IF hits = {} THEN -1 ELSE CHOOSE i \in hits : \A j \in hits : i <= j

\* int8_t findTimerIndex(relayId): first enabled timer of the relay, or -1
findTimerIndex(relayId) ==
  LET hits == {i \in TimerSlots : timers[i + 1].relayId = relayId
                                   /\ timers[i + 1].enabled}
  IN IF hits = {} THEN -1 ELSE CHOOSE i \in hits : \A j \in hits : i <= j

\* cancelTimer that finds the timer and leaves it enabled
Cancelled_none(relayId) == timers

\* the timers array after cancelTimer(relayId)
Cancelled(relayId) ==
  LET index == findTimerIndex(relayId)
  IN IF index >= 0 THEN [timers EXCEPT ![index + 1].enabled = FALSE] ELSE timers

\* addTimer that appends without cancelling the relay's existing timer
AfterAdd_nocancel(relayId, durationSeconds, turnOffWhenExpired) ==
  Append(timers,
     [relayId |-> relayId, startTime |-> millis, duration |-> durationSeconds,
      turnOffWhenExpired |-> turnOffWhenExpired, enabled |-> TRUE,
      id |-> nextId, born |-> realMillis])

\* the timers array after a successful addTimer: the relay's timer is
\* cancelled, the new one is written at timerCount (id and born are ghost)
AfterAdd(relayId, durationSeconds, turnOffWhenExpired) ==
  Append(Cancelled(relayId),
     [relayId |-> relayId, startTime |-> millis, duration |-> durationSeconds,
      turnOffWhenExpired |-> turnOffWhenExpired, enabled |-> TRUE,
      id |-> nextId, born |-> realMillis])

\* addTimer that checks for room after cancelling, counting only the
\* enabled timers of the other relays
addTimer_rejected_live(relayId) ==
  \/ Cardinality({i \in TimerSlots : timers[i + 1].enabled
                                       /\ timers[i + 1].relayId # relayId}) >= MAX_TIMERS
  \/ relayId >= RELAY_COUNT
\* addTimer returns false: no slot left, or invalid relay id
addTimer_rejected(relayId) == timerCount >= MAX_TIMERS \/ relayId >= RELAY_COUNT

\* bool addTimer(relayId, durationSeconds, turnOffWhenExpired)
addTimer(relayId, durationSeconds, turnOffWhenExpired) ==
  /\ op' = <<"addTimer", relayId, durationSeconds, turnOffWhenExpired>>
  /\ calls' = <<>>
  /\ IF addTimer_rejected(relayId)
       THEN /\ ret' = FALSE
            /\ UNCHANGED timerVars
       ELSE /\ timers' = AfterAdd(relayId, durationSeconds, turnOffWhenExpired)
            /\ timerCount' = timerCount + 1
            /\ nextId' = nextId + 1
            /\ ret' = TRUE
            /\ UNCHANGED fired
  /\ UNCHANGED <<autoVars, schedVars, envVars, realMillis, probe, guestRoomAsked>>

\* bool cancelTimer(relayId)
cancelTimer(relayId) ==
  /\ op' = <<"cancelTimer", relayId>>
  /\ calls' = <<>>
  /\ ret' = (findTimerIndex(relayId) >= 0)
  /\ timers' = Cancelled(relayId)
  /\ UNCHANGED <<timerCount, nextId, fired>>
  /\ UNCHANGED <<autoVars, schedVars, envVars, realMillis, probe, guestRoomAsked>>

\* void clearAllTimers()
clearAllTimers ==
  /\ op' = <<"clearAllTimers">>
  /\ calls' = <<>>
  /\ ret' = TRUE
  /\ timerCount' = 0
  /\ timers' = <<>>
  /\ UNCHANGED <<nextId, fired>>
  /\ UNCHANGED <<autoVars, schedVars, envVars, realMillis, probe, guestRoomAsked>>

\* void updateTimers(relayStates, relayCallback): the callback invocations
updateTimersCalls(relayCallback) == SweepCallsFrom(0, timers, millis, relayCallback)

\* void updateTimers(relayStates, relayCallback): the effect on the timers
updateTimers ==
  LET swept == [k \in 1 .. timerCount |-> SweepTimer(timers[k], millis)]
      expired == {k \in 1 .. timerCount : timers[k].enabled /\ Expired(timers[k], millis)}
  IN /\ timers' = Compact(swept)
     /\ timerCount' = Len(Compact(swept))
     /\ fired' = fired \cup {timers[k].id : k \in expired}
     /\ UNCHANGED nextId

(***************************************************************************)
(* ScheduleController: schedules                                           *)
(***************************************************************************)
\* a & b on 8-bit operands
RECURSIVE BitAnd(_, _, _)
BitAnd(a, b, bits) ==
  IF bits = 0 THEN 0
  ELSE (a % 2) * (b % 2) + 2 * BitAnd(a \div 2, b \div 2, bits - 1)

\* isDayMatch taking the day as the bit number (Monday = bit 1)
isDayMatch_unshifted(sched, dayOfWeek) ==
  LET dayBit == (2 ^ dayOfWeek) % U8
  IN BitAnd(sched.daysOfWeek, dayBit, 8) # 0

\* bool isDayMatch(sched, dayOfWeek), for dayOfWeek in 1..7 (1 = Monday):
\* uint8_t dayBit = 1 << (dayOfWeek - 1)
isDayMatch(sched, dayOfWeek) ==
  LET dayBit == (2 ^ (dayOfWeek - 1)) % U8
  IN BitAnd(sched.daysOfWeek, dayBit, 8) # 0

\* wrapping window taken as the intersection of its two halves
shouldScheduleBeActive_and(sched, currentHour, currentMin, dayOfWeek) ==
  IF ~isDayMatch(sched, dayOfWeek) THEN FALSE
  ELSE LET currentMinutes == currentHour * 60 + currentMin
           onMinutes == sched.onHour * 60 + sched.onMinute
           offMinutes == sched.offHour * 60 + sched.offMinute
       IN IF offMinutes < onMinutes
            THEN (currentMinutes >= onMinutes) /\ (currentMinutes < offMinutes)
            ELSE (currentMinutes >= onMinutes) /\ (currentMinutes < offMinutes)

\* off boundary taken inclusive
shouldScheduleBeActive_inclusive(sched, currentHour, currentMin, dayOfWeek) ==
  IF ~isDayMatch(sched, dayOfWeek) THEN FALSE
  ELSE LET currentMinutes == currentHour * 60 + currentMin
           onMinutes == sched.onHour * 60 + sched.onMinute
           offMinutes == sched.offHour * 60 + sched.offMinute
       IN IF offMinutes < onMinutes
            THEN (currentMinutes >= onMinutes) \/ (currentMinutes <= offMinutes)
            ELSE (currentMinutes >= onMinutes) /\ (currentMinutes <= offMinutes)

\* shouldScheduleBeActive that tests the early half of a wrapping window,
\* [00:00, off), against the day the window started on
shouldScheduleBeActive_startday(sched, currentHour, currentMin, dayOfWeek) ==
  LET currentMinutes == currentHour * 60 + currentMin
      onMinutes == sched.onHour * 60 + sched.onMinute
      offMinutes == sched.offHour * 60 + sched.offMinute
      dayBefore == IF dayOfWeek = 1 THEN 7 ELSE dayOfWeek - 1
  IN IF offMinutes < onMinutes
       THEN \/ isDayMatch(sched, dayOfWeek) /\ currentMinutes >= onMinutes
            \/ isDayMatch(sched, dayBefore) /\ currentMinutes < offMinutes
       ELSE /\ isDayMatch(sched, dayOfWeek)
            /\ (currentMinutes >= onMinutes) /\ (currentMinutes < offMinutes)

\* bool shouldScheduleBeActive(sched, currentHour, currentMin, dayOfWeek)
shouldScheduleBeActive(sched, currentHour, currentMin, dayOfWeek) ==
  IF ~isDayMatch(sched, dayOfWeek) THEN FALSE
  ELSE LET currentMinutes == currentHour * 60 + currentMin
           onMinutes == sched.onHour * 60 + sched.onMinute
           offMinutes == sched.offHour * 60 + sched.offMinute
       IN IF offMinutes < onMinutes
            THEN (currentMinutes >= onMinutes) \/ (currentMinutes < offMinutes)
            ELSE (currentMinutes >= onMinutes) /\ (currentMinutes < offMinutes)

\* bool getCurrentTime(...): fails without an RTC; the block that reads the
\* RTC is compiled only in a build with RTC support (rtcBuild)
getCurrentTime == rtcAvailable /\ rtcBuild

\* update that runs its schedule loop whenever the minute differs, with or
\* without a time source
SchedulesEvaluated_anyway == rtcNow.minute # lastMinute

\* update that runs its schedule loop on every call that can read the time
SchedulesEvaluated_everycall == rtcAvailable /\ getCurrentTime

\* update that skips its schedule loop on an unchanged minute value only
\* while no enabled schedule is due to change
SchedulesEvaluated_boundary ==
  /\ rtcAvailable /\ getCurrentTime
  /\ \/ rtcNow.minute # lastMinute
     \/ \E k \in 1 .. scheduleCount :
          /\ schedules[k].enabled
          /\ schedules[k].isActive
               # shouldScheduleBeActive(schedules[k], rtcNow.hour, rtcNow.minute, rtcNow.dow)

\* update reaches its schedule loop: RTC available, time read, minute changed
SchedulesEvaluated == rtcAvailable /\ getCurrentTime /\ rtcNow.minute # lastMinute

\* schedule loop that actuates on the level instead of the edge
SchedLoopCall_level(sched, i, relayCallback) ==
  LET shouldBeActive ==
        shouldScheduleBeActive(sched, rtcNow.hour, rtcNow.minute, rtcNow.dow)
  IN IF sched.enabled /\ relayCallback
       THEN <<[by |-> "schedule", relayId |-> sched.relayId,
               state |-> shouldBeActive, src |-> i]>>
       ELSE <<>>

\* body of the schedule loop of update for slot i: the callback invocations
SchedLoopCall(sched, i, relayCallback) ==
  LET shouldBeActive ==
        shouldScheduleBeActive(sched, rtcNow.hour, rtcNow.minute, rtcNow.dow)
  IN IF sched.enabled /\ shouldBeActive # sched.isActive /\ relayCallback
       THEN <<[by |-> "schedule", relayId |-> sched.relayId,
               state |-> shouldBeActive, src |-> i]>>
       ELSE <<>>

\* schedule loop that brings the isActive flag of a disabled schedule up to
\* date as well
SchedLoopStep_all(sched) ==
  [sched EXCEPT !.isActive =
     shouldScheduleBeActive(sched, rtcNow.hour, rtcNow.minute, rtcNow.dow)]

\* body of the schedule loop of update for slot i: the schedule afterwards
SchedLoopStep(sched) ==
  LET shouldBeActive ==
        shouldScheduleBeActive(sched, rtcNow.hour, rtcNow.minute, rtcNow.dow)
  IN IF ~sched.enabled THEN sched
     ELSE IF shouldBeActive /\ ~sched.isActive THEN [sched EXCEPT !.isActive = TRUE]
     ELSE IF ~shouldBeActive /\ sched.isActive THEN [sched EXCEPT !.isActive = FALSE]
     ELSE sched

RECURSIVE SchedCallsFrom(_, _)
SchedCallsFrom(i, relayCallback) ==
  IF i >= scheduleCount THEN <<>>
  ELSE SchedLoopCall(schedules[i + 1], i, relayCallback)
       \o SchedCallsFrom(i + 1, relayCallback)

\* void update(relayStates, relayCallback); relayStates is not read
update(relayStates, relayCallback) ==
  /\ op' = <<"update", relayCallback>>
  /\ ret' = TRUE
  /\ updateTimers
  /\ IF SchedulesEvaluated
       THEN /\ lastMinute' = rtcNow.minute
            /\ schedules' = [k \in 1 .. scheduleCount |-> SchedLoopStep(schedules[k])]
            /\ calls' = updateTimersCalls(relayCallback)
                          \o SchedCallsFrom(0, relayCallback)
            /\ UNCHANGED <<scheduleCount, rtcAvailable>>
       ELSE /\ calls' = updateTimersCalls(relayCallback)
            /\ UNCHANGED schedVars
  /\ guestRoomAsked' = LastAsked(calls', guestRoomAsked)
  /\ UNCHANGED <<autoVars, envVars, realMillis, probe>>

\* addSchedule that validates the on time only
addSchedule_rejected_ontime(relayId, onHour, onMin, offHour, offMin) ==
  \/ scheduleCount >= MAX_SCHEDULES
  \/ relayId >= RELAY_COUNT \/ onHour > 23 \/ onMin > 59
\* addSchedule returns false: no space, or an invalid parameter
addSchedule_rejected(relayId, onHour, onMin, offHour, offMin) ==
  \/ scheduleCount >= MAX_SCHEDULES
  \/ relayId >= RELAY_COUNT \/ onHour > 23 \/ offHour > 23
  \/ onMin > 59 \/ offMin > 59

\* bool addSchedule(relayId, onHour, onMin, offHour, offMin, days)
addSchedule(relayId, onHour, onMin, offHour, offMin, days) ==
  /\ op' = <<"addSchedule", relayId, onHour, onMin, offHour, offMin, days>>
  /\ calls' = <<>>
  /\ IF addSchedule_rejected(relayId, onHour, onMin, offHour, offMin)
       THEN /\ ret' = FALSE
            /\ UNCHANGED schedVars
       ELSE /\ schedules' = Append(schedules,
                 [relayId |-> relayId, onHour |-> onHour, onMinute |-> onMin,
                  offHour |-> offHour, offMinute |-> offMin, daysOfWeek |-> days,
                  enabled |-> TRUE, isActive |-> FALSE])
            /\ scheduleCount' = scheduleCount + 1
            /\ ret' = TRUE
            /\ UNCHANGED <<rtcAvailable, lastMinute>>
  /\ UNCHANGED <<autoVars, timerVars, envVars, realMillis, probe, guestRoomAsked>>

\* bool removeSchedule(index)
removeSchedule(index) ==
  /\ op' = <<"removeSchedule", index>>
  /\ calls' = <<>>
  /\ IF index >= scheduleCount
       THEN /\ ret' = FALSE
            /\ UNCHANGED schedVars
       ELSE /\ schedules' = RemovedAt(schedules, index)
            /\ scheduleCount' = scheduleCount - 1
            /\ ret' = TRUE
            /\ UNCHANGED <<rtcAvailable, lastMinute>>
  /\ UNCHANGED <<autoVars, timerVars, envVars, realMillis, probe, guestRoomAsked>>

\* void setScheduleEnabled(index, enabled)
setScheduleEnabled(index, enabled) ==
  /\ op' = <<"setScheduleEnabled">>
  /\ calls' = <<>>
  /\ ret' = TRUE
  /\ schedules' = IF index < scheduleCount
                    THEN [schedules EXCEPT ![index + 1].enabled = enabled]
                    ELSE schedules
  /\ UNCHANGED <<scheduleCount, rtcAvailable, lastMinute>>
  /\ UNCHANGED <<autoVars, timerVars, envVars, realMillis, probe, guestRoomAsked>>

\* void clearAllSchedules()
clearAllSchedules ==
  /\ op' = <<"clearAllSchedules">>
  /\ calls' = <<>>
  /\ ret' = TRUE
  /\ scheduleCount' = 0
  /\ schedules' = <<>>
  /\ UNCHANGED <<rtcAvailable, lastMinute>>
  /\ UNCHANGED <<autoVars, timerVars, envVars, realMillis, probe, guestRoomAsked>>

(***************************************************************************)
(* Persistence: the files hold the count byte and the raw records          *)
(***************************************************************************)
NoFile == [exists |-> FALSE, data |-> <<>>]
\* nothing has been saved yet (ghost)
NothingSaved ==
  [rules |-> <<>>, rulesOnCard |-> FALSE, schedules |-> <<>>, schedulesOnCard |-> FALSE]

\* a bool as the byte the compiler stores, and back
BoolByte(b) == IF b THEN 1 ELSE 0
ByteBool(x) == x # 0
\* unsigned long as its four bytes, least significant first, and back
U32Bytes(n) ==
  <<n % U8, (n \div U8) % U8, (n \div (U8 * U8)) % U8, (n \div (U8 * U8 * U8)) % U8>>
BytesU32(bs) == bs[1] + U8 * bs[2] + U8 * U8 * bs[3] + U8 * U8 * U8 * bs[4]
\* enum class TriggerType, ActionType : uint8_t, in declaration order
TriggerTypes ==
  <<"TEMP_HIGH", "TEMP_LOW", "TEMP_RANGE", "MANUAL_ONLY", "MOTION_DETECTED", "LIGHT_LOW">>
ActionTypes == <<"TURN_ON", "TURN_OFF", "TOGGLE">>
EnumByte(names, v) == (CHOOSE k \in DOMAIN names : names[k] = v) - 1
ByteEnum(names, x) == IF x < Len(names) THEN names[x + 1] ELSE "INVALID"

\* sizeof(AutomationRule), sizeof(Schedule)
SizeofAutomationRule == 12
SizeofSchedule == 8
\* the bytes of one AutomationRule, in member order, and the rule of 12 bytes
RuleBytes(rule) ==
  <<rule.relayId, EnumByte(TriggerTypes, rule.triggerType),
    EnumByte(ActionTypes, rule.action), rule.threshold, rule.thresholdHigh,
    BoolByte(rule.enabled), BoolByte(rule.currentlyTriggered), rule.hysteresis>>
  \o U32Bytes(rule.lastTriggerTime)
BytesRule(bs) ==
  [relayId |-> bs[1], triggerType |-> ByteEnum(TriggerTypes, bs[2]),
   action |-> ByteEnum(ActionTypes, bs[3]), threshold |-> bs[4],
   thresholdHigh |-> bs[5], enabled |-> ByteBool(bs[6]),
   currentlyTriggered |-> ByteBool(bs[7]), hysteresis |-> bs[8],
   lastTriggerTime |-> BytesU32(SubSeq(bs, 9, 12))]
\* the bytes of one Schedule, in member order, and the schedule of 8 bytes
ScheduleBytes(sc) ==
  <<sc.relayId, sc.onHour, sc.onMinute, sc.offHour, sc.offMinute, sc.daysOfWeek,
    BoolByte(sc.enabled), BoolByte(sc.isActive)>>
BytesSchedule(bs) ==
  [relayId |-> bs[1], onHour |-> bs[2], onMinute |-> bs[3], offHour |-> bs[4],
   offMinute |-> bs[5], daysOfWeek |-> bs[6], enabled |-> ByteBool(bs[7]),
   isActive |-> ByteBool(bs[8])]

\* the records written one after the other
RECURSIVE Flatten(_)
Flatten(ss) == IF ss = <<>> THEN <<>> ELSE Head(ss) \o Flatten(Tail(ss))
\* what saveToSD writes: the count byte, then each record below the count
RuleFileBytes == <<ruleCount>> \o Flatten([k \in 1 .. ruleCount |-> RuleBytes(rules[k])])
ScheduleFileBytes ==
  <<scheduleCount>> \o Flatten([k \in 1 .. scheduleCount |-> ScheduleBytes(schedules[k])])

\* saveToSD that opens the old file without removing it first
Removed_kept(file) == file
\* if (SD.exists(F)) SD.remove(F)
Removed(file) == NoFile
\* the file after saveToSD: the old one is removed; FILE_WRITE creates the
\* file and appends; nothing is written when the open fails
Saved(file, opens, bytes) ==
  IF opens THEN [exists |-> TRUE, data |-> Removed(file).data \o bytes]
  ELSE Removed(file)

\* the count byte loadFromSD reads: file.read() gives -1, stored as 255, at
\* the end of the file
LoadedCount(file) == IF Len(file.data) = 0 THEN U8 - 1 ELSE file.data[1]
\* record k (from 1) of a file of records of the given size
FileRecord(file, k, size) == SubSeq(file.data, 2 + (k - 1) * size, 1 + k * size)
\* the file holds every record its count byte announces (a shorter file
\* leaves the rest of the array as it was; such files are not modelled)
FileComplete(file, cap, size) ==
  (file.exists /\ LoadedCount(file) <= cap) => Len(file.data) >= 1 + LoadedCount(file) * size
\* loadFromSD returns false: file missing, open failed, or count over capacity
LoadFails(file, opens, cap) == ~file.exists \/ ~opens \/ LoadedCount(file) > cap

\* bool ScheduleController::loadFromSD(): its return value
loadFromSD_ret(opens) == ~LoadFails(sdSchedules, opens, MAX_SCHEDULES)

\* loadFromSD that leaves the count alone when it rejects the file
loadFromSD_count_kept(opens) ==
  IF LoadFails(sdSchedules, opens, MAX_SCHEDULES) THEN scheduleCount
  ELSE LoadedCount(sdSchedules)

\* bool ScheduleController::loadFromSD(): scheduleCount afterwards
loadFromSD_count(opens) ==
  IF ~sdSchedules.exists \/ ~opens THEN scheduleCount
  ELSE IF LoadedCount(sdSchedules) > MAX_SCHEDULES THEN 0
  ELSE LoadedCount(sdSchedules)

\* bool ScheduleController::loadFromSD(): the slots below scheduleCount
\* afterwards
loadFromSD_schedules(opens) ==
  IF ~sdSchedules.exists \/ ~opens THEN schedules
  ELSE IF LoadedCount(sdSchedules) > MAX_SCHEDULES THEN <<>>
  ELSE [k \in 1 .. LoadedCount(sdSchedules) |->
          BytesSchedule(FileRecord(sdSchedules, k, SizeofSchedule))]

\* records the read loop of loadFromSD reads into the array
LoadReads(file, opens, cap) == IF LoadFails(file, opens, cap) THEN 0 ELSE LoadedCount(file)

\* bool ScheduleController::loadFromSD(); opens: SD.open succeeds
ScheduleController_loadFromSD(opens) ==
  /\ FileComplete(sdSchedules, MAX_SCHEDULES, SizeofSchedule)
  /\ op' = <<"ScheduleController::loadFromSD",
             LoadReads(sdSchedules, opens, MAX_SCHEDULES), opens>>
  /\ calls' = <<>>
  /\ ret' = loadFromSD_ret(opens)
  /\ scheduleCount' = loadFromSD_count(opens)
  /\ schedules' = loadFromSD_schedules(opens)
  /\ UNCHANGED <<rtcAvailable, lastMinute>>
  /\ UNCHANGED <<autoVars, timerVars, envVars, realMillis, probe, guestRoomAsked>>

\* bool ScheduleController::saveToSD(); opens: SD.open succeeds
ScheduleController_saveToSD(opens) ==
  /\ op' = <<"ScheduleController::saveToSD">>
  /\ calls' = <<>>
  /\ ret' = opens
  /\ sdSchedules' = Saved(sdSchedules, opens, ScheduleFileBytes)
  /\ saved' = [saved EXCEPT !.schedules = IF opens THEN schedules ELSE <<>>,
                            !.schedulesOnCard = opens]
  /\ UNCHANGED <<rtcBuild, rtcNow, sdRules>>
  /\ UNCHANGED <<autoVars, schedVars, timerVars, realMillis, probe, guestRoomAsked>>

\* bool AutomationController::loadFromSD(): its return value
Automation_loadFromSD_ret(opens) == ~LoadFails(sdRules, opens, MAX_AUTOMATION_RULES)

\* loadFromSD that empties the collection whenever it fails
Automation_loadFromSD_count_reset(opens) ==
  IF LoadFails(sdRules, opens, MAX_AUTOMATION_RULES) THEN 0 ELSE LoadedCount(sdRules)

\* loadFromSD that takes the count byte as it is
Automation_loadFromSD_count_unchecked(opens) ==
  IF ~sdRules.exists \/ ~opens THEN ruleCount ELSE LoadedCount(sdRules)

\* bool AutomationController::loadFromSD(): ruleCount afterwards
Automation_loadFromSD_count(opens) ==
  IF ~sdRules.exists \/ ~opens THEN ruleCount
  ELSE IF LoadedCount(sdRules) > MAX_AUTOMATION_RULES THEN 0
  ELSE LoadedCount(sdRules)

\* bool AutomationController::loadFromSD(): the slots below ruleCount
\* afterwards
Automation_loadFromSD_rules(opens) ==
  IF ~sdRules.exists \/ ~opens THEN rules
  ELSE IF LoadedCount(sdRules) > MAX_AUTOMATION_RULES THEN <<>>
  ELSE [k \in 1 .. LoadedCount(sdRules) |->
          BytesRule(FileRecord(sdRules, k, SizeofAutomationRule))]

\* bool AutomationController::loadFromSD(); opens: SD.open succeeds
AutomationController_loadFromSD(opens) ==
  /\ FileComplete(sdRules, MAX_AUTOMATION_RULES, SizeofAutomationRule)
  /\ op' = <<"AutomationController::loadFromSD",
             LoadReads(sdRules, opens, MAX_AUTOMATION_RULES), opens>>
  /\ calls' = <<>>
  /\ ret' = Automation_loadFromSD_ret(opens)
  /\ ruleCount' = Automation_loadFromSD_count(opens)
  /\ rules' = Automation_loadFromSD_rules(opens)
  /\ UNCHANGED <<automationEnabled, lastTemperature>>
  /\ UNCHANGED <<schedVars, timerVars, envVars, realMillis, probe, guestRoomAsked>>

\* bool AutomationController::saveToSD(); opens: SD.open succeeds
AutomationController_saveToSD(opens) ==
  /\ op' = <<"AutomationController::saveToSD">>
  /\ calls' = <<>>
  /\ ret' = opens
  /\ sdRules' = Saved(sdRules, opens, RuleFileBytes)
  /\ saved' = [saved EXCEPT !.rules = IF opens THEN rules ELSE <<>>,
                            !.rulesOnCard = opens]
  /\ UNCHANGED <<rtcBuild, rtcNow, sdSchedules>>
  /\ UNCHANGED <<autoVars, schedVars, timerVars, realMillis, probe, guestRoomAsked>>

\* the rules after a call of addRule that begin() makes
WithRule(rs, relayId, triggerType, action, threshold) ==
  IF Len(rs) >= MAX_AUTOMATION_RULES \/ relayId >= RELAY_COUNT THEN rs
  ELSE Append(rs, NewRule(relayId, triggerType, action, threshold))

\* the rules after void AutomationController::begin(): the loaded ones, or,
\* when loadFromSD returns false, what it left plus the two default rules
begin_rules(opens) ==
  IF Automation_loadFromSD_ret(opens) THEN Automation_loadFromSD_rules(opens)
  ELSE WithRule(WithRule(Automation_loadFromSD_rules(opens),
                         RELAY_GUEST_ROOM, "TEMP_HIGH", "TURN_ON", TEMP_THRESHOLD_HIGH),
                RELAY_GUEST_ROOM, "TEMP_LOW", "TURN_OFF",
                TEMP_THRESHOLD_HIGH - TEMP_HYSTERESIS)

\* void AutomationController::begin(); opens: SD.open succeeds
AutomationController_begin(opens) ==
  /\ FileComplete(sdRules, MAX_AUTOMATION_RULES, SizeofAutomationRule)
  /\ op' = <<"AutomationController::begin", Automation_loadFromSD_ret(opens)>>
  /\ calls' = <<>>
  /\ ret' = TRUE
  /\ rules' = begin_rules(opens)
  /\ ruleCount' = Len(begin_rules(opens))
  /\ UNCHANGED <<automationEnabled, lastTemperature>>
  /\ UNCHANGED <<schedVars, timerVars, envVars, realMillis, probe, guestRoomAsked>>

\* bool ScheduleController::begin(): found says whether rtc.begin() succeeds
\* and opens whether the schedule file can be opened;
\* in a build with RTC support; the shipped build sets rtcAvailable = false
begin(found, opens) ==
  /\ FileComplete(sdSchedules, MAX_SCHEDULES, SizeofSchedule)
  /\ op' = <<"begin">>
  /\ calls' = <<>>
  /\ rtcAvailable' = (rtcBuild /\ found)
  /\ scheduleCount' = loadFromSD_count(opens)
  /\ schedules' = loadFromSD_schedules(opens)
  /\ ret' = rtcAvailable'
  /\ UNCHANGED lastMinute
  /\ UNCHANGED <<autoVars, timerVars, envVars, realMillis, probe, guestRoomAsked>>

\* the RTC moves on (or is set) to another time
SetClock(h, m, d) ==
  /\ rtcNow' = [hour |-> h, minute |-> m, dow |-> d]
  /\ op' = <<"clock">>
  /\ ret' = TRUE
  /\ calls' = <<>>
  /\ UNCHANGED <<rtcBuild, sdSchedules, sdRules, saved>>
  /\ UNCHANGED <<autoVars, schedVars, timerVars, realMillis, probe, guestRoomAsked>>

(***************************************************************************)
(* Environment                                                             *)
(***************************************************************************)
\* the millisecond clock advances by d between two calls
Tick(d) ==
  /\ realMillis + d <= MaxMillis
  /\ realMillis' = realMillis + d
  /\ op' = <<"tick">>
  /\ ret' = TRUE
  /\ calls' = <<>>
  /\ UNCHANGED <<autoVars, schedVars, timerVars, envVars, probe, guestRoomAsked>>

(***************************************************************************)
(* Initial state: both controllers constructed                             *)
(***************************************************************************)
NoProbe == [asked |-> FALSE, hour |-> 0, minute |-> 0, dow |-> 1, active |-> FALSE]

Constructed ==
  /\ rules = <<>>
  /\ ruleCount = 0
  /\ automationEnabled = TRUE
  /\ lastTemperature = 0
  /\ timers = <<>>
  /\ timerCount = 0
  /\ rtcAvailable = FALSE
  /\ lastMinute = 0
  /\ rtcNow = [hour |-> 0, minute |-> 0, dow |-> 1]
  /\ saved = NothingSaved
  /\ op = <<"construct">>
  /\ ret = TRUE
  /\ calls = <<>>
  /\ nextId = 1
  /\ fired = {}
  /\ probe = NoProbe
  /\ guestRoomAsked = "none"

NoSchedules == schedules = <<>> /\ scheduleCount = 0
\* no file of either controller is on the SD card
NoFiles == sdSchedules = NoFile /\ sdRules = NoFile
\* the timer specification starts with the controller idle since boot, shortly
\* before the millisecond counter wraps
InitTimer ==
  /\ Constructed /\ NoSchedules /\ NoFiles
  /\ realMillis = MillisMod - WrapMargin /\ rtcBuild = FALSE
\* the main loop reaches its first evaluate some time after boot
InitAuto ==
  Constructed /\ NoSchedules /\ NoFiles /\ realMillis = BootDelay /\ rtcBuild = FALSE

(***************************************************************************)
(* Specification of the automation rule engine                             *)
(***************************************************************************)
\* arguments addRule is called with: relayId, triggerType, action, threshold
RuleInputs ==
  { <<RELAY_GUEST_ROOM, "TEMP_HIGH", "TURN_ON", TEMP_THRESHOLD_HIGH>>,
    <<RELAY_GUEST_ROOM, "TEMP_LOW", "TURN_OFF", TEMP_THRESHOLD_HIGH - TEMP_HYSTERESIS>>,
    <<0, "TEMP_RANGE", "TOGGLE", 26>>,
    <<0, "MANUAL_ONLY", "TURN_ON", 28>>,
    <<RELAY_COUNT, "TEMP_HIGH", "TURN_ON", 28>>,
    <<1, "TEMP_HIGH", "TURN_OFF", 1>>,
    <<1, "TEMP_LOW", "TURN_ON", 254>> }
\* temperature readings (uint8_t)
Temps == {0, 25, 26, 27, 28, 29, 255}
\* relay state snapshots handed to evaluate and update
Snapshots == { [r \in 0 .. (RELAY_COUNT - 1) |-> b] : b \in BOOLEAN }

AddRule ==
  \E in \in RuleInputs :
    /\ ruleCount < MaxRules
    /\ addRule(in[1], in[2], in[3], in[4])
RemoveRule == \E index \in 0 .. MaxRules : removeRule(index)
\* for the first slot and for the first index no rule of this specification has
SetRuleEnabled == \E index \in {0, MaxRules}, e \in BOOLEAN : setRuleEnabled(index, e)
SetAutomationEnabled == \E e \in BOOLEAN : setAutomationEnabled(e)
ClearAllRules == clearAllRules
Evaluate ==
  \E t \in Temps, s \in Snapshots, cb \in BOOLEAN : evaluate(t, s, cb)

NextAuto ==
  \/ AddRule
  \/ RemoveRule
  \/ SetRuleEnabled
  \/ SetAutomationEnabled
  \/ ClearAllRules
  \/ Evaluate

SpecAuto == InitAuto /\ [][NextAuto]_vars

(***************************************************************************)
(* Specification of the timers                                             *)
(***************************************************************************)
\* relays cancelTimer is called for (RELAY_COUNT is the first invalid one)
TimerRelays == {0, 1, RELAY_COUNT}
\* arguments addTimer is called with: relayId, durationSeconds, turnOffWhenExpired
TimerInputs ==
  { <<0, 5, TRUE>>, <<0, 10, FALSE>>, <<0, 3, TRUE>>, <<1, 2, FALSE>>,
    <<RELAY_COUNT, 3, TRUE>> }
\* milliseconds the clock advances between two calls
Deltas == {1500}

AddTimer ==
  \E in \in TimerInputs :
    /\ nextId <= MaxAdds
    /\ addTimer(in[1], in[2], in[3])
CancelTimer == \E r \in TimerRelays : cancelTimer(r)
ClearAllTimers == clearAllTimers
Update == \E s \in Snapshots, cb \in BOOLEAN : update(s, cb)
Advance == \E d \in Deltas : Tick(d)

NextTimer ==
  \/ AddTimer
  \/ CancelTimer
  \/ ClearAllTimers
  \/ Update
  \/ Advance

SpecTimer == InitTimer /\ [][NextTimer]_vars

(***************************************************************************)
(* Specification of the schedules                                          *)
(***************************************************************************)
\* arguments addSchedule is called with
ScheduleInputs ==
  { <<1, 22, 0, 6, 0, SCHEDULE_DAILY>>,
    <<0, 6, 0, 22, 0, 1>>,
    <<0, 6, 0, 6, 0, SCHEDULE_DAILY>>,
    <<RELAY_COUNT, 6, 0, 22, 0, SCHEDULE_DAILY>>,
    <<0, 24, 0, 6, 60, SCHEDULE_DAILY>> }
\* times of day the RTC is read at
ClockTimes == { <<21, 59>>, <<22, 0>>, <<6, 0>>, <<6, 1>> }
ClockDays == {1, 2}

Begin == \E found, opens \in BOOLEAN : begin(found, opens)
AddSchedule ==
  \E in \in ScheduleInputs :
    /\ scheduleCount < MaxScheds
    /\ addSchedule(in[1], in[2], in[3], in[4], in[5], in[6])
RemoveSchedule == \E index \in 0 .. MaxScheds : removeSchedule(index)
SetScheduleEnabled ==
  \E index \in 0 .. MaxScheds, e \in BOOLEAN : setScheduleEnabled(index, e)
ClearAllSchedules == clearAllSchedules
ClockMoves == \E t \in ClockTimes, d \in ClockDays : SetClock(t[1], t[2], d)

NextSched ==
  \/ Begin
  \/ AddSchedule
  \/ RemoveSchedule
  \/ SetScheduleEnabled
  \/ ClearAllSchedules
  \/ ClockMoves
  \/ Update

\* the build is either the shipped one or one with RTC support
InitSched ==
  Constructed /\ NoSchedules /\ NoFiles /\ realMillis = 0 /\ rtcBuild \in BOOLEAN
SpecSched == InitSched /\ [][NextSched]_vars

(***************************************************************************)
(* Specification of update with and without a time source: one schedule    *)
(* and short timers                                                        *)
(***************************************************************************)
AddNightSchedule ==
  /\ scheduleCount < 1
  /\ addSchedule(1, 22, 0, 6, 0, SCHEDULE_DAILY)
AddShortTimer ==
  \E in \in {<<0, 3, TRUE>>, <<1, 2, FALSE>>} :
    /\ nextId <= MaxIdleTimers
    /\ addTimer(in[1], in[2], in[3])

NextNoClock ==
  \/ Begin
  \/ AddNightSchedule
  \/ AddShortTimer
  \/ ClockMoves
  \/ Advance
  \/ Update

SpecNoClock == InitSched /\ [][NextNoClock]_vars

(***************************************************************************)
(* Specification of persistence: both collections are filled up to their   *)
(* capacity, saved and loaded; the card may hold foreign files at boot     *)
(***************************************************************************)
\* files found on the card at boot: none, an empty file, a count byte one
\* over the capacity, a count byte of 255
ForeignFiles(cap) ==
  { NoFile, [exists |-> TRUE, data |-> <<>>], [exists |-> TRUE, data |-> <<cap + 1>>],
    [exists |-> TRUE, data |-> <<U8 - 1>>] }

InitStore ==
  /\ Constructed /\ NoSchedules /\ realMillis = BootDelay /\ rtcBuild = FALSE
  /\ sdRules \in ForeignFiles(MAX_AUTOMATION_RULES)
  /\ sdSchedules \in ForeignFiles(MAX_SCHEDULES)

StoreAddRule ==
  addRule(RELAY_GUEST_ROOM, "TEMP_HIGH", "TURN_ON", TEMP_THRESHOLD_HIGH)
StoreEvaluate == \E s \in Snapshots : evaluate(TEMP_THRESHOLD_HIGH, s, TRUE)
SaveRules == \E opens \in BOOLEAN : AutomationController_saveToSD(opens)
LoadRules == \E opens \in BOOLEAN : AutomationController_loadFromSD(opens)
StoreAddSchedule == addSchedule(1, 22, 0, 6, 0, SCHEDULE_DAILY)
SaveSchedules == \E opens \in BOOLEAN : ScheduleController_saveToSD(opens)
LoadSchedules == \E opens \in BOOLEAN : ScheduleController_loadFromSD(opens)

NextStore ==
  \/ StoreAddRule
  \/ StoreEvaluate
  \/ ClearAllRules
  \/ SaveRules
  \/ LoadRules
  \/ StoreAddSchedule
  \/ ClearAllSchedules
  \/ SaveSchedules
  \/ LoadSchedules

SpecStore == InitStore /\ [][NextStore]_vars

(***************************************************************************)
(* Specification of rule management up to the capacity of the rule array   *)
(***************************************************************************)
\* arguments addRule is called with: two valid rules, the first relay id out
\* of range and the largest uint8_t
FullRuleInputs ==
  { <<RELAY_GUEST_ROOM, "TEMP_HIGH", "TURN_ON", TEMP_THRESHOLD_HIGH>>,
    <<0, "TEMP_LOW", "TURN_OFF", 250>>,
    <<RELAY_COUNT, "TEMP_HIGH", "TURN_ON", TEMP_THRESHOLD_HIGH>>,
    <<U8 - 1, "TEMP_LOW", "TURN_OFF", 250>> }

FullAddRule == \E in \in FullRuleInputs : addRule(in[1], in[2], in[3], in[4])
FullRemoveRule == \E index \in 0 .. MAX_AUTOMATION_RULES : removeRule(index)
FullEvaluate == \E s \in Snapshots : evaluate(TEMP_THRESHOLD_HIGH, s, TRUE)

NextRules ==
  \/ FullAddRule
  \/ FullRemoveRule
  \/ FullEvaluate
  \/ ClearAllRules

SpecRules == InitAuto /\ [][NextRules]_vars

(***************************************************************************)
(* Specification of schedule management up to the capacity of the schedule *)
(* array                                                                   *)
(***************************************************************************)
\* arguments addSchedule is called with: two valid schedules (one with the
\* largest hour and minute), and one per invalid parameter
FullScheduleInputs ==
  { <<1, 22, 0, 6, 0, SCHEDULE_DAILY>>,
    <<RELAY_COUNT - 1, 23, 59, 0, 0, 1>>,
    <<RELAY_COUNT, 22, 0, 6, 0, SCHEDULE_DAILY>>,
    <<1, 24, 0, 6, 0, SCHEDULE_DAILY>>,
    <<1, 22, 60, 6, 0, SCHEDULE_DAILY>>,
    <<1, 22, 0, 24, 0, SCHEDULE_DAILY>>,
    <<1, 22, 0, 6, 60, SCHEDULE_DAILY>>,
    <<U8 - 1, U8 - 1, U8 - 1, U8 - 1, U8 - 1, SCHEDULE_DAILY>> }

FullAddSchedule ==
  \E in \in FullScheduleInputs : addSchedule(in[1], in[2], in[3], in[4], in[5], in[6])
FullRemoveSchedule == \E index \in 0 .. MAX_SCHEDULES : removeSchedule(index)
FullSetScheduleEnabled ==
  \E index \in {0, MAX_SCHEDULES - 1, MAX_SCHEDULES}, e \in BOOLEAN :
    setScheduleEnabled(index, e)

NextSchedules ==
  \/ FullAddSchedule
  \/ FullRemoveSchedule
  \/ FullSetScheduleEnabled
  \/ ClearAllSchedules

InitSchedules ==
  Constructed /\ NoSchedules /\ NoFiles /\ realMillis = 0 /\ rtcBuild = FALSE
SpecSchedules == InitSchedules /\ [][NextSchedules]_vars

(***************************************************************************)
(* Specification of removal by index from both collections                 *)
(***************************************************************************)
HeldAddRule ==
  \E in \in FullRuleInputs : ruleCount < MaxHeld /\ addRule(in[1], in[2], in[3], in[4])
HeldRemoveRule == \E index \in 0 .. MaxHeld : removeRule(index)
HeldAddSchedule ==
  \E in \in FullScheduleInputs :
    /\ scheduleCount < MaxHeld
    /\ addSchedule(in[1], in[2], in[3], in[4], in[5], in[6])
HeldRemoveSchedule == \E index \in 0 .. MaxHeld : removeSchedule(index)

NextRemove ==
  \/ HeldAddRule
  \/ HeldRemoveRule
  \/ HeldAddSchedule
  \/ HeldRemoveSchedule

SpecRemove == InitAuto /\ [][NextRemove]_vars

(***************************************************************************)
(* Specification of rule actions: toggle, on and off rules, range rules,   *)
(* rules read from a card whose records name a relay the board does not    *)
(* have, and evaluate with and without a callback                          *)
(***************************************************************************)
\* the file saveToSD would write for the rules rs
RuleFile(rs) ==
  [exists |-> TRUE,
   data |-> <<Len(rs)>> \o Flatten([k \in 1 .. Len(rs) |-> RuleBytes(rs[k])])]
\* a rule file whose first record names relay RELAY_COUNT + 2 and whose
\* second record is a valid rule
OddRelayFile ==
  RuleFile(<<NewRule(RELAY_COUNT + 2, "TEMP_HIGH", "TURN_ON", TEMP_THRESHOLD_HIGH),
             NewRule(1, "TEMP_HIGH", "TURN_OFF", TEMP_THRESHOLD_HIGH)>>)

\* arguments addRule is called with
ActingRuleInputs ==
  { <<1, "TEMP_HIGH", "TOGGLE", TEMP_THRESHOLD_HIGH>>,
    <<1, "TEMP_RANGE", "TOGGLE", 26>>,
    <<RELAY_GUEST_ROOM, "TEMP_HIGH", "TURN_ON", TEMP_THRESHOLD_HIGH>>,
    <<RELAY_GUEST_ROOM, "TEMP_LOW", "TURN_OFF", 26>>,
    <<0, "TEMP_RANGE", "TURN_ON", 250>> }
\* temperature readings
ActingTemps == {25, 26, 36, 37}
\* relay state arrays handed to evaluate: only relay 1 on, only relay 1 off
ActingSnapshots ==
  { [r \in 0 .. (RELAY_COUNT - 1) |-> r = 1], [r \in 0 .. (RELAY_COUNT - 1) |-> r # 1] }

InitActions ==
  /\ Constructed /\ NoSchedules /\ realMillis = BootDelay /\ rtcBuild = FALSE
  /\ sdSchedules = NoFile
  /\ sdRules \in {NoFile, OddRelayFile}

ActingAddRule ==
  \E in \in ActingRuleInputs :
    /\ ruleCount < MaxActing
    /\ addRule(in[1], in[2], in[3], in[4])
ActingEvaluate ==
  \E t \in ActingTemps, s \in ActingSnapshots, cb \in BOOLEAN : evaluate(t, s, cb)

NextActions ==
  \/ LoadRules
  \/ ActingAddRule
  \/ ActingEvaluate
  \/ ClearAllRules

SpecActions == InitActions /\ [][NextActions]_vars

(***************************************************************************)
(* Specification of the default rules: begin() finds no usable rule file   *)
(* and installs the two guest room rules; the main loop then calls         *)
(* evaluate with a callback                                                *)
(***************************************************************************)
\* temperature readings around the two default thresholds
DefaultTemps == {25, 26, 27, 28, 29}

InitDefaults ==
  /\ Constructed /\ NoSchedules /\ realMillis = BootDelay /\ rtcBuild = FALSE
  /\ sdSchedules = NoFile
  /\ sdRules \in ForeignFiles(MAX_AUTOMATION_RULES)

\* setup() calls begin() once, before the first evaluate
DefaultsBegin ==
  /\ op = <<"construct">>
  /\ \E opens \in BOOLEAN : AutomationController_begin(opens)
DefaultsEvaluate ==
  /\ op # <<"construct">>
  /\ \E t \in DefaultTemps, s \in Snapshots : evaluate(t, s, TRUE)

NextDefaults ==
  \/ DefaultsBegin
  \/ DefaultsEvaluate

SpecDefaults == InitDefaults /\ [][NextDefaults]_vars

(***************************************************************************)
(* Specification of the timer slots: timers for two relays are added and   *)
(* cancelled until the array is full; update compacts it                   *)
(***************************************************************************)
SlotRelays == {0, 1}
SlotsAddTimer ==
  \E r \in SlotRelays, off \in BOOLEAN :
    /\ nextId <= MaxSlotAdds
    /\ addTimer(r, 5, off)
SlotsCancelTimer == \E r \in SlotRelays : cancelTimer(r)

NextSlots ==
  \/ SlotsAddTimer
  \/ SlotsCancelTimer
  \/ Update

SpecSlots == InitTimer /\ [][NextSlots]_vars

(***************************************************************************)
(* Specification of update called for ever: the main loop keeps calling    *)
(* update while the millisecond counter runs and wraps; the time since     *)
(* boot is followed modulo the range of the counter, which is all millis() *)
(* shows                                                                   *)
(***************************************************************************)
\* milliseconds between two calls of update: a quarter and a half of the
\* range of the counter
LiveDeltas == {MillisMod \div 4, MillisMod \div 2}
\* the longest time between two calls of update
MaxStep == MillisMod \div 2
\* arguments addTimer is called with: relayId, durationSeconds
LiveTimerInputs == { <<0, 2>>, <<0, 3>>, <<1, 5>> }

LiveAddTimer ==
  \E in \in LiveTimerInputs :
    /\ nextId <= MaxLiveAdds
    /\ addTimer(in[1], in[2], TRUE)
\* the counter runs on between two calls of update
LiveAdvance ==
  \E d \in LiveDeltas :
    /\ op[1] \in {"update", "construct"}
    /\ realMillis' = (realMillis + d) % MillisMod
    /\ op' = <<"tick">>
    /\ ret' = TRUE
    /\ calls' = <<>>
    /\ UNCHANGED <<autoVars, schedVars, timerVars, envVars, probe, guestRoomAsked>>

\* loop() hands update its relay callback
LiveUpdate == \E s \in Snapshots : update(s, TRUE)

NextLive ==
  \/ LiveAddTimer
  \/ SlotsCancelTimer
  \/ LiveUpdate
  \/ LiveAdvance

InitLive ==
  Constructed /\ NoSchedules /\ NoFiles /\ realMillis = 0 /\ rtcBuild = FALSE
\* loop() calls update on every pass, and the counter never stops: it has
\* advanced again whenever update has been called often enough
SpecLive ==
  InitLive /\ [][NextLive]_vars /\ WF_vars(LiveUpdate) /\ SF_vars(LiveAdvance)

(***************************************************************************)
(* Specification of a night schedule for a single day of the week, in a    *)
(* build with RTC support; the schedule is added, disabled, enabled and    *)
(* removed while the clock runs                                            *)
(***************************************************************************)
\* day masks: Monday only, Sunday only
NightMasks == {1, 64}
\* times of day the RTC is read at, on either side of midnight
NightTimes == { <<22, 0>>, <<23, 59>>, <<0, 1>>, <<5, 59>>, <<6, 0>>, <<21, 58>> }
\* days the RTC is read on: Monday, Tuesday, Sunday
NightDays == {1, 2, 7}

NightAddSchedule ==
  \E mask \in NightMasks :
    /\ scheduleCount < 1
    /\ addSchedule(1, 22, 0, 6, 0, mask)
NightClockMoves == \E t \in NightTimes, d \in NightDays : SetClock(t[1], t[2], d)

NightRemoveSchedule == \E index \in {0, 1} : removeSchedule(index)
NightSetScheduleEnabled ==
  \E index \in {0, 1}, e \in BOOLEAN : setScheduleEnabled(index, e)

NextNight ==
  \/ Begin
  \/ NightAddSchedule
  \/ NightRemoveSchedule
  \/ NightSetScheduleEnabled
  \/ ClearAllSchedules
  \/ NightClockMoves
  \/ Update

InitNight ==
  Constructed /\ NoSchedules /\ NoFiles /\ realMillis = 0 /\ rtcBuild = TRUE
SpecNight == InitNight /\ [][NextNight]_vars

(***************************************************************************)
(* Specification of enabling and disabling rules between evaluations       *)
(***************************************************************************)
\* arguments addRule is called with: the two guest room rules
EnableRuleInputs ==
  { <<RELAY_GUEST_ROOM, "TEMP_HIGH", "TURN_ON", TEMP_THRESHOLD_HIGH>>,
    <<RELAY_GUEST_ROOM, "TEMP_LOW", "TURN_OFF", TEMP_THRESHOLD_HIGH - TEMP_HYSTERESIS>> }
\* temperature readings: below the band of the first rule, inside it, on
\* its threshold
EnableTemps == {25, 27, 28}

EnableAddRule ==
  \E in \in EnableRuleInputs :
    /\ ruleCount < MaxActing
    /\ addRule(in[1], in[2], in[3], in[4])
\* the indices reach from the first slot to the largest uint8_t
EnableSetRule ==
  \E index \in (0 .. MaxActing) \cup {U8 - 1}, e \in BOOLEAN : setRuleEnabled(index, e)
EnableEvaluate ==
  \E t \in EnableTemps, s \in Snapshots, cb \in BOOLEAN : evaluate(t, s, cb)

NextEnable ==
  \/ EnableAddRule
  \/ EnableSetRule
  \/ EnableEvaluate

SpecEnable == InitAuto /\ [][NextEnable]_vars

(***************************************************************************)
(* Specification of the three collections at their capacity: rules,        *)
(* schedules and timers are added up to and beyond the capacity, removed,  *)
(* cleared, cancelled, loaded from any kind of file, evaluated and updated *)
(***************************************************************************)
\* a schedule file of n records
ScheduleFile(n) ==
  [exists |-> TRUE,
   data |-> <<n>> \o Flatten([k \in 1 .. n |->
                ScheduleBytes([relayId |-> 1, onHour |-> 22, onMinute |-> 0,
                               offHour |-> 6, offMinute |-> 0,
                               daysOfWeek |-> SCHEDULE_DAILY, enabled |-> TRUE,
                               isActive |-> FALSE])])]
\* a rule file of n records
FullRuleFile(n) ==
  RuleFile([k \in 1 .. n |->
              NewRule(RELAY_GUEST_ROOM, "TEMP_HIGH", "TURN_ON", TEMP_THRESHOLD_HIGH)])

InitCapacity ==
  /\ Constructed /\ NoSchedules /\ realMillis = BootDelay /\ rtcBuild = FALSE
  /\ sdRules \in ForeignFiles(MAX_AUTOMATION_RULES) \cup {FullRuleFile(MAX_AUTOMATION_RULES)}
  /\ sdSchedules \in ForeignFiles(MAX_SCHEDULES) \cup {ScheduleFile(MAX_SCHEDULES)}

\* the three collections share no state: each is exercised while the other
\* two are empty
RulesAlone == scheduleCount = 0 /\ timerCount = 0
SchedulesAlone == ruleCount = 0 /\ timerCount = 0
TimersAlone == ruleCount = 0 /\ scheduleCount = 0

CapacityAddRule == RulesAlone /\ StoreAddRule
CapacityRemoveRule == RulesAlone /\ removeRule(0)
CapacityClearRules == RulesAlone /\ clearAllRules
CapacityLoadRules == RulesAlone /\ LoadRules
CapacityBeginRules ==
  RulesAlone /\ \E opens \in BOOLEAN : AutomationController_begin(opens)
CapacityEvaluate ==
  /\ RulesAlone
  /\ evaluate(TEMP_THRESHOLD_HIGH, [r \in 0 .. (RELAY_COUNT - 1) |-> FALSE], TRUE)
CapacityAddSchedule == SchedulesAlone /\ StoreAddSchedule
CapacityRemoveSchedule == SchedulesAlone /\ removeSchedule(0)
CapacityClearSchedules == SchedulesAlone /\ clearAllSchedules
CapacityLoadSchedules == SchedulesAlone /\ LoadSchedules
CapacityAddTimer ==
  \E r \in SlotRelays :
    /\ TimersAlone
    /\ nextId <= MaxSlotAdds
    /\ addTimer(r, 5, TRUE)
CapacityCancelTimer == TimersAlone /\ SlotsCancelTimer
CapacityClearTimers == TimersAlone /\ clearAllTimers
CapacityUpdate ==
  TimersAlone /\ update([r \in 0 .. (RELAY_COUNT - 1) |-> FALSE], TRUE)

NextCapacity ==
  \/ CapacityAddRule
  \/ CapacityRemoveRule
  \/ CapacityClearRules
  \/ CapacityLoadRules
  \/ CapacityBeginRules
  \/ CapacityEvaluate
  \/ CapacityAddSchedule
  \/ CapacityRemoveSchedule
  \/ CapacityClearSchedules
  \/ CapacityLoadSchedules
  \/ CapacityAddTimer
  \/ CapacityCancelTimer
  \/ CapacityClearTimers
  \/ CapacityUpdate

SpecCapacity == InitCapacity /\ [][NextCapacity]_vars

(***************************************************************************)
(* Specification probing shouldScheduleBeActive                            *)
(***************************************************************************)
ProbeTimes == { <<0, 0>>, <<5, 59>>, <<6, 0>>, <<6, 1>>, <<21, 59>>, <<22, 0>>,
                <<23, 30>>, <<23, 59>> }
\* daily, Monday, Sunday, weekdays, weekend, no day
ProbeMasks == {SCHEDULE_DAILY, 1, 64, 31, 96, 0}
ProbeDays == 1 .. 7
ProbeSchedules ==
  { [relayId |-> 0, onHour |-> on[1], onMinute |-> on[2], offHour |-> off[1],
     offMinute |-> off[2], daysOfWeek |-> mask, enabled |-> TRUE, isActive |-> FALSE] :
    on \in ProbeTimes, off \in ProbeTimes, mask \in ProbeMasks }

\* one schedule is stored, as addSchedule stores it
InitProbe ==
  /\ Constructed /\ NoFiles /\ realMillis = 0 /\ rtcBuild = FALSE
  /\ \E sc \in ProbeSchedules : schedules = <<sc>>
  /\ scheduleCount = 1

\* shouldScheduleBeActive is asked about the schedule in slot 0
Ask ==
  \E t \in ProbeTimes, d \in ProbeDays :
    /\ probe' = [asked |-> TRUE, hour |-> t[1], minute |-> t[2], dow |-> d,
                 active |-> shouldScheduleBeActive(schedules[1], t[1], t[2], d)]
    /\ op' = <<"shouldScheduleBeActive">>
    /\ ret' = TRUE
    /\ calls' = <<>>
    /\ UNCHANGED <<autoVars, schedVars, timerVars, envVars, realMillis, guestRoomAsked>>

NextProbe == Ask
SpecProbe == InitProbe /\ [][NextProbe]_vars

(***************************************************************************)
(* Properties of the automation rule engine                                *)
(***************************************************************************)
\* number of callback invocations in cs that slot i caused
CallsOf(cs, i) == Cardinality({k \in DOMAIN cs : cs[k].src = i})

\* the step is an evaluate call made while automation is globally enabled;
\* lastTemperature' is then the reading it was given
EvaluateStep == op'[1] = "evaluate" /\ automationEnabled
LiveRules == {i \in RuleSlots : rules[i + 1].enabled}

\* C1: evaluation is edge-triggered.  In every evaluate call with automation
\* enabled, an enabled rule whose condition is met while its flag is false
\* gets its flag set and (with a callback and a valid relay) exactly one
\* callback invocation; while the flag is true and the condition stays met
\* nothing is invoked and the flag stays; when the condition is no longer met
\* the flag is cleared (or stays clear) and nothing is invoked.
C1_EdgeTriggered ==
  [][EvaluateStep =>
       \A i \in LiveRules :
         LET r == rules[i + 1]
             met == evaluateCondition(r, lastTemperature')
             n == CallsOf(calls', i)
         IN /\ (met /\ ~r.currentlyTriggered) =>
                  /\ rules'[i + 1].currentlyTriggered
                  /\ rules'[i + 1].lastTriggerTime = millis
                  /\ n <= 1
                  /\ (op'[2] /\ r.relayId < RELAY_COUNT) => n = 1
            /\ (met /\ r.currentlyTriggered) =>
                  /\ rules'[i + 1] = r
                  /\ n = 0
            /\ ~met =>
                  /\ rules'[i + 1] = [r EXCEPT !.currentlyTriggered = FALSE]
                  /\ n = 0]_vars

\* C1 witness: an evaluate call with a callback has just taken an enabled
\* rule through its rising edge: flag set now, one invocation for it
C1_Witness ==
  /\ op[1] = "evaluate" /\ op[2]
  /\ \E i \in LiveRules :
       /\ rules[i + 1].currentlyTriggered
       /\ rules[i + 1].lastTriggerTime = millis
       /\ CallsOf(calls, i) = 1

ScheduleUpdateStep == op'[1] = "update" /\ SchedulesEvaluated

\* the invocations in cs that schedule slot i caused
ScheduleCalls(cs, i) ==
  LET Mine(c) == c.by = "schedule" /\ c.src = i IN SelectSeq(cs, Mine)

\* C4: schedule actuation is edge-triggered.  In an update that evaluates
\* the schedules, an enabled schedule gets exactly one invocation (relay,
\* ON) when its computed activity is true and isActive was false, exactly
\* one (relay, OFF) when the activity is false and isActive was true, and
\* none when they agree (invocations need a callback); afterwards isActive
\* is the computed activity.
C4_ScheduleEdge ==
  [][ScheduleUpdateStep =>
       \A i \in ScheduleSlots :
         LET sc == schedules[i + 1]
             act == shouldScheduleBeActive(sc, rtcNow.hour, rtcNow.minute, rtcNow.dow)
             mine == ScheduleCalls(calls', i)
         IN sc.enabled =>
              /\ schedules'[i + 1] = [sc EXCEPT !.isActive = act]
              /\ IF act # sc.isActive /\ op'[2]
                   THEN mine = <<[by |-> "schedule", relayId |-> sc.relayId,
                                  state |-> act, src |-> i]>>
                   ELSE mine = <<>>]_vars

\* C4 witness: an update with a callback has just switched a schedule off
C4_Witness ==
  /\ op = <<"update", TRUE>>
  /\ \E k \in DOMAIN calls :
       /\ calls[k].by = "schedule"
       /\ calls[k].state = FALSE
       /\ schedules[calls[k].src + 1].enabled
       /\ ~schedules[calls[k].src + 1].isActive

(***************************************************************************)
(* Properties of shouldScheduleBeActive                                    *)
(***************************************************************************)
OnMinutes(sc) == sc.onHour * 60 + sc.onMinute
OffMinutes(sc) == sc.offHour * 60 + sc.offMinute
AskedMinutes == probe.hour * 60 + probe.minute
\* bit d - 1 of the day mask (Monday = 1 is bit 0)
DayBitSet(sc, d) == (sc.daysOfWeek \div (2 ^ (d - 1))) % 2 = 1
Asked == probe.asked /\ DayBitSet(schedules[1], probe.dow)
\* Scenario B: on 22:00, off 06:00, every day
ScenarioB(sc) ==
  /\ sc.onHour = 22 /\ sc.onMinute = 0 /\ sc.offHour = 6 /\ sc.offMinute = 0
  /\ sc.daysOfWeek = SCHEDULE_DAILY

\* C5 as stated: a midnight-wrapping schedule (onMinutes > offMinutes) whose
\* day bit is set is active at onMinutes and at minute 0 of the day, and
\* inactive at offMinutes.
C5_AsStated ==
  LET sc == schedules[1] IN
  (Asked /\ OnMinutes(sc) > OffMinutes(sc)) =>
     /\ AskedMinutes = OnMinutes(sc) => probe.active
     /\ AskedMinutes = 0 => probe.active
     /\ AskedMinutes = OffMinutes(sc) => ~probe.active

\* C5 amended: a midnight-wrapping schedule whose day bit is set is active at
\* onMinutes, active at minute 0 of the day when its off time is after
\* 00:00, and inactive at offMinutes (so with off = 00:00 it is inactive at
\* minute 0); Scenario B answers false, true, true, true, false, false at
\* 21:59, 22:00, 23:30, 05:59, 06:00, 06:01.
C5_WrapActive ==
  LET sc == schedules[1] IN
  (Asked /\ OnMinutes(sc) > OffMinutes(sc)) =>
     /\ AskedMinutes = OnMinutes(sc) => probe.active
     /\ (AskedMinutes = 0 /\ OffMinutes(sc) > 0) => probe.active
     /\ AskedMinutes = OffMinutes(sc) => ~probe.active
     /\ ScenarioB(sc) =>
          /\ <<probe.hour, probe.minute>> \in {<<22, 0>>, <<23, 30>>, <<5, 59>>}
               => probe.active
          /\ <<probe.hour, probe.minute>> \in {<<21, 59>>, <<6, 0>>, <<6, 1>>}
               => ~probe.active

\* C5 witness: a wrapping schedule with its day bit set, asked at minute 0
\* of the day, is active
C5_Witness ==
  /\ Asked
  /\ OnMinutes(schedules[1]) > OffMinutes(schedules[1])
  /\ AskedMinutes = 0
  /\ probe.active

\* C6: a schedule with onMinutes <= offMinutes whose day bit is set is active
\* exactly when onMinutes <= current < offMinutes; with equal on and off
\* times it is inactive whenever it is asked, on any day.
C6_SameDayWindow ==
  LET sc == schedules[1] IN
  /\ (Asked /\ OnMinutes(sc) <= OffMinutes(sc)) =>
        (probe.active <=>
           (OnMinutes(sc) <= AskedMinutes /\ AskedMinutes < OffMinutes(sc)))
  /\ (probe.asked /\ OnMinutes(sc) = OffMinutes(sc)) => ~probe.active

\* C6 witness: a same-day schedule asked at its on time is active
C6_Witness ==
  /\ Asked
  /\ OnMinutes(schedules[1]) < OffMinutes(schedules[1])
  /\ AskedMinutes = OnMinutes(schedules[1])
  /\ probe.active

(***************************************************************************)
(* Properties of the timers                                                *)
(***************************************************************************)
UpdateStep == op'[1] = "update"
EnabledTimers == {i \in TimerSlots : timers[i + 1].enabled}
\* the invocations in cs that timer slot i caused
TimerCalls(cs, i) ==
  LET Mine(c) == c.by = "timer" /\ c.src = i IN SelectSeq(cs, Mine)
\* identities of the timers in the sequence ts
Ids(ts) == {ts[k].id : k \in DOMAIN ts}
\* the timers of ts that belong to relay r and are enabled
LiveFor(ts, r) == {k \in DOMAIN ts : ts[k].enabled /\ ts[k].relayId = r}

\* C7: each timer fires exactly once.  In an update call an enabled timer
\* with floor(((now - start) mod 2^w) / 1000) >= duration gets exactly one
\* invocation (its relay, true iff turnOffWhenExpired is false) when a
\* callback is given, and is gone from the list after the call; an enabled
\* timer below its duration gets none and stays; the list holds no disabled
\* timer after the call; and a timer that has fired is never in the list
\* again, so no later update invokes the callback for it.
C7_FiresOnce ==
  [][/\ UpdateStep =>
          /\ \A i \in EnabledTimers :
               LET tm == timers[i + 1]
                   secs == ((millis - tm.startTime) % MillisMod) \div 1000
                   mine == TimerCalls(calls', i)
               IN IF secs >= tm.duration
                    THEN /\ op'[2] => /\ Len(mine) = 1
                                      /\ mine[1].relayId = tm.relayId
                                      /\ mine[1].state = (~tm.turnOffWhenExpired)
                         /\ ~op'[2] => mine = <<>>
                         /\ tm.id \notin Ids(timers')
                         /\ tm.id \in fired'
                    ELSE /\ mine = <<>>
                         /\ \E k \in DOMAIN timers' : timers'[k] = tm
                         /\ tm.id \notin fired'
          /\ \A i \in TimerSlots \ EnabledTimers : TimerCalls(calls', i) = <<>>
          /\ \A k \in DOMAIN timers' : timers'[k].enabled
          /\ timerCount' = Len(timers')
     /\ Ids(timers') \cap fired' = {}]_vars

\* C7 witness: an update with a callback has just fired a timer that turns
\* its relay on; the timer is no longer in the list
C7_Witness ==
  /\ op = <<"update", TRUE>>
  /\ \E k \in DOMAIN calls :
       /\ calls[k].by = "timer"
       /\ calls[k].state = TRUE
       /\ ~calls[k].timer.turnOffWhenExpired
       /\ calls[k].timer.id \in fired
       /\ calls[k].timer.id \notin Ids(timers)

\* C8: among the slots below timerCount at most one enabled timer exists per
\* relay.
C8_OneLivePerRelay ==
  /\ timerCount = Len(timers)
  /\ \A r \in 0 .. (RELAY_COUNT - 1) : Cardinality(LiveFor(timers, r)) <= 1

\* C8 witness: the slots below timerCount hold a cancelled and an enabled
\* timer of one relay and an enabled timer of another relay
C8_Witness ==
  /\ timerCount = 3
  /\ \E a, b \in DOMAIN timers :
       /\ ~timers[a].enabled /\ timers[b].enabled
       /\ timers[a].relayId = timers[b].relayId
  /\ \E a, b \in DOMAIN timers :
       /\ timers[a].enabled /\ timers[b].enabled
       /\ timers[a].relayId # timers[b].relayId

\* C9: a successful addTimer for a relay that has an enabled timer leaves
\* exactly one enabled timer for that relay, and it carries the duration and
\* turnOffWhenExpired of the new call (and starts now).
C9_AddReplaces ==
  [][(op'[1] = "addTimer" /\ ret' /\ LiveFor(timers, op'[2]) # {}) =>
       /\ Cardinality(LiveFor(timers', op'[2])) = 1
       /\ \A k \in LiveFor(timers', op'[2]) :
            /\ timers'[k].duration = op'[3]
            /\ timers'[k].turnOffWhenExpired = op'[4]
            /\ timers'[k].startTime = millis
            /\ timers'[k].id \notin Ids(timers)]_vars

\* C9 witness: timers of 5 s, 10 s and 3 s have been added for one relay; the
\* third addTimer has just returned and only the 3 s timer is enabled
C9_Witness ==
  /\ op[1] = "addTimer" /\ op[3] = 3 /\ ret
  /\ Len(timers) = 3
  /\ \A k \in 1 .. 3 : timers[k].relayId = op[2]
  /\ <<timers[1].duration, timers[2].duration, timers[3].duration>> = <<5, 10, 3>>
  /\ <<timers[1].enabled, timers[2].enabled, timers[3].enabled>> = <<FALSE, FALSE, TRUE>>

\* the counter has wrapped exactly once since tm was started and now reads
\* less than the start time
WrappedOnce(tm) ==
  /\ realMillis \div MillisMod = (tm.born \div MillisMod) + 1
  /\ millis < tm.startTime

\* C10: wraparound-safe elapsed time.  In an update call, for an enabled
\* timer started before the counter wrapped once (now < start), the
\* computed elapsed value is the true number of milliseconds since the
\* start, and the timer expires in this call exactly when the true elapsed
\* seconds have reached its duration.
C10_WrapSafe ==
  [][UpdateStep =>
       \A i \in EnabledTimers :
         LET tm == timers[i + 1] IN
         WrappedOnce(tm) =>
           /\ Elapsed(millis, tm.startTime) = realMillis - tm.born
           /\ (tm.id \in fired') <=> ((realMillis - tm.born) \div 1000 >= tm.duration)]_vars

\* C10 witness: an update with a callback has just fired a timer that was
\* started before the counter wrapped, at the call where its true elapsed
\* seconds had reached its duration
C10_Witness ==
  /\ op = <<"update", TRUE>>
  /\ \E k \in DOMAIN calls :
       /\ calls[k].by = "timer"
       /\ WrappedOnce(calls[k].timer)
       /\ (realMillis - calls[k].timer.born) \div 1000 >= calls[k].timer.duration

\* C11: after every update call the timer list is compacted: the slots below
\* timerCount hold exactly the timers that are still enabled after the
\* expiry sweep (enabled before and below their duration), in their previous
\* relative order, none of them disabled, and timerCount is their number.
C11_Compacted ==
  [][UpdateStep =>
       LET Survives(tm) ==
             /\ tm.enabled
             /\ ((millis - tm.startTime) % MillisMod) \div 1000 < tm.duration
       IN /\ timers' = SelectSeq(timers, Survives)
          /\ timerCount' = Cardinality({k \in DOMAIN timers : Survives(timers[k])})
          /\ timerCount' = Len(timers')
          /\ \A k \in 1 .. timerCount' : timers'[k].enabled]_vars

\* C11 witness: an update has just fired the timer of slot 0 and moved the
\* enabled timer that followed it down to slot 0
C11_Witness ==
  /\ op = <<"update", TRUE>>
  /\ \E k \in DOMAIN calls : calls[k].by = "timer" /\ calls[k].src = 0
  /\ timerCount = 1
  /\ timers[1].enabled

(***************************************************************************)
(* Further properties of the automation rules                              *)
(***************************************************************************)
\* C12: while automation is globally disabled evaluate is a no-op: for any
\* measurement it invokes no callback and leaves the rule count and every
\* rule (triggered flag, trigger timestamp, enabled flag and all other
\* fields), the global switch and the last temperature unchanged.
C12_DisabledNoOp ==
  [][(op'[1] = "evaluate" /\ ~automationEnabled) =>
       /\ calls' = <<>>
       /\ ruleCount' = ruleCount
       /\ \A i \in RuleSlots :
            /\ rules'[i + 1].currentlyTriggered = rules[i + 1].currentlyTriggered
            /\ rules'[i + 1].lastTriggerTime = rules[i + 1].lastTriggerTime
            /\ rules'[i + 1].enabled = rules[i + 1].enabled
       /\ UNCHANGED autoVars]_vars

\* C12 witness: evaluate has just returned with automation disabled, given
\* a callback and a measurement that meets the condition of an enabled rule
\* that is not triggered
C12_Witness ==
  /\ op[1] = "evaluate" /\ op[2]
  /\ ~automationEnabled
  /\ calls = <<>>
  /\ \E i \in RuleSlots :
       /\ rules[i + 1].enabled
       /\ ~rules[i + 1].currentlyTriggered
       /\ rules[i + 1].relayId < RELAY_COUNT
       /\ rules[i + 1].triggerType = "TEMP_HIGH"
       /\ op[3] >= rules[i + 1].threshold

(***************************************************************************)
(* Properties of update without a time source                              *)
(***************************************************************************)
\* lines 80 and 85 of update: the RTC is not available or the time cannot
\* be read
TimeSourceUnavailable == ~rtcAvailable \/ ~getCurrentTime

\* C13: update evaluates the timers on every call, with or without a time
\* source: every enabled timer that has reached its duration expires in the
\* call (and invokes the callback when one is given).  While the time
\* source is unavailable an update invokes no schedule callback and changes
\* no schedule (no isActive flag, nor lastMinute).
C13_TimersAlways ==
  [][UpdateStep =>
       /\ \A i \in EnabledTimers :
            LET tm == timers[i + 1] IN
            ((millis - tm.startTime) % MillisMod) \div 1000 >= tm.duration =>
               /\ tm.id \in fired' /\ tm.id \notin Ids(timers')
               /\ op'[2] => Len(TimerCalls(calls', i)) = 1
       /\ TimeSourceUnavailable =>
            /\ \A k \in DOMAIN calls' : calls'[k].by # "schedule"
            /\ scheduleCount' = scheduleCount
            /\ \A i \in ScheduleSlots :
                 schedules'[i + 1].isActive = schedules[i + 1].isActive
            /\ UNCHANGED schedVars]_vars

\* C13 witness: without a time source an update has just fired a timer,
\* while an enabled schedule that the clock (at a new minute) puts inside
\* its window is still inactive
C13_Witness ==
  /\ op = <<"update", TRUE>>
  /\ TimeSourceUnavailable
  /\ \E k \in DOMAIN calls : calls[k].by = "timer"
  /\ rtcNow.minute # lastMinute
  /\ \E i \in ScheduleSlots :
       /\ schedules[i + 1].enabled
       /\ ~schedules[i + 1].isActive
       /\ shouldScheduleBeActive(schedules[i + 1], rtcNow.hour, rtcNow.minute, rtcNow.dow)

\* C14: schedules are re-evaluated only when the observed minute value
\* changes.  An update that reads the time remembers the minute it observed
\* in lastMinute, and nothing else changes lastMinute; an update observing
\* the remembered minute, in particular one that directly follows another
\* update, invokes no schedule callback and changes no schedule.  So over
\* consecutive updates observing one minute the schedules are evaluated at
\* most once, and an evaluation invokes at most one callback per schedule.
C14_OncePerMinute ==
  [][/\ (UpdateStep /\ ~TimeSourceUnavailable) =>
          /\ lastMinute' = rtcNow.minute
          /\ \A i \in ScheduleSlots : Len(ScheduleCalls(calls', i)) <= 1
          /\ (rtcNow.minute = lastMinute \/ op[1] = "update") =>
               /\ \A k \in DOMAIN calls' : calls'[k].by # "schedule"
               /\ schedules' = schedules
     /\ lastMinute' # lastMinute => (UpdateStep /\ ~TimeSourceUnavailable)]_vars

\* C14 witness: an update has just observed the minute that was already
\* remembered and left alone an enabled schedule whose isActive flag differs
\* from its computed activity
C14_Witness ==
  /\ op[1] = "update"
  /\ ~TimeSourceUnavailable
  /\ lastMinute = rtcNow.minute
  /\ calls = <<>>
  /\ \E i \in ScheduleSlots :
       /\ schedules[i + 1].enabled
       /\ schedules[i + 1].isActive
            # shouldScheduleBeActive(schedules[i + 1], rtcNow.hour, rtcNow.minute, rtcNow.dow)

(***************************************************************************)
(* Further properties of shouldScheduleBeActive                            *)
(***************************************************************************)
\* C15: a schedule is computed active only if the bit of the current weekday
\* (bit d - 1 for weekday d in 1..7, Monday = 1) is set in its day mask:
\* with the bit clear it is inactive at every minute asked, whatever its on
\* and off times.
C15_DayBitRequired ==
  probe.asked =>
    /\ probe.dow \in 1 .. 7
    /\ probe.active => DayBitSet(schedules[1], probe.dow)
    /\ ~DayBitSet(schedules[1], probe.dow) => ~probe.active

\* C15 witness: a schedule asked at a minute inside its window, on a
\* weekday whose bit is clear in a mask that has other days, is inactive
C15_Witness ==
  /\ probe.asked
  /\ schedules[1].daysOfWeek # 0
  /\ ~DayBitSet(schedules[1], probe.dow)
  /\ OnMinutes(schedules[1]) <= AskedMinutes
  /\ AskedMinutes < OffMinutes(schedules[1])
  /\ ~probe.active

(***************************************************************************)
(* Properties of persistence                                               *)
(***************************************************************************)
RulesLoadStep == op'[1] = "AutomationController::loadFromSD"
SchedulesLoadStep == op'[1] = "ScheduleController::loadFromSD"
\* the first byte of an open file, as the uint8_t count takes it
CountByte(file) == IF file.data = <<>> THEN 255 ELSE file.data[1]

\* C16: loadFromSD (rules and schedules) on a file that opens and whose
\* count byte exceeds the capacity leaves zero entries (count 0), returns
\* false and reads no record into the array.
C16_OversizeRejected ==
  [][/\ (RulesLoadStep /\ sdRules.exists /\ op'[3]
           /\ CountByte(sdRules) > MAX_AUTOMATION_RULES) =>
          (ruleCount' = 0 /\ rules' = <<>> /\ ~ret' /\ op'[2] = 0)
     /\ (SchedulesLoadStep /\ sdSchedules.exists /\ op'[3]
           /\ CountByte(sdSchedules) > MAX_SCHEDULES) =>
          (scheduleCount' = 0 /\ schedules' = <<>> /\ ~ret' /\ op'[2] = 0)]_vars

\* C16 witness: the schedule file announces one schedule more than the
\* capacity; loadFromSD has just rejected it, while the rule file on the
\* card is one that saveToSD wrote
C16_Witness ==
  /\ op[1] = "ScheduleController::loadFromSD" /\ op[3]
  /\ sdSchedules.exists
  /\ CountByte(sdSchedules) = MAX_SCHEDULES + 1
  /\ scheduleCount = 0
  /\ ~ret
  /\ saved.rulesOnCard

\* the store is unavailable to a load of the file: it is missing or the open
\* (the step's third op component) fails
Unavailable(file, opened) == ~file.exists \/ ~opened

\* C17 as stated: when the file is missing or cannot be opened, loadFromSD
\* (rules and schedules) empties the collection and returns false, whatever
\* the collection held.
C17_AsStated ==
  [][/\ (RulesLoadStep /\ Unavailable(sdRules, op'[3])) =>
          (ruleCount' = 0 /\ rules' = <<>> /\ ~ret')
     /\ (SchedulesLoadStep /\ Unavailable(sdSchedules, op'[3])) =>
          (scheduleCount' = 0 /\ schedules' = <<>> /\ ~ret')]_vars

\* C17: when the file is missing or cannot be opened, loadFromSD (rules and
\* schedules) returns false, reads no record and leaves the count and every
\* entry of the collection as they were.
C17_UnavailableKeeps ==
  [][/\ (RulesLoadStep /\ Unavailable(sdRules, op'[3])) =>
          (ruleCount' = ruleCount /\ rules' = rules /\ ~ret' /\ op'[2] = 0)
     /\ (SchedulesLoadStep /\ Unavailable(sdSchedules, op'[3])) =>
          (scheduleCount' = scheduleCount /\ schedules' = schedules /\ ~ret'
             /\ op'[2] = 0)]_vars

\* C17 witness: with no rule file on the card, loadFromSD has returned false
\* and the controller still holds two rules, one of them triggered
C17_Witness ==
  /\ op[1] = "AutomationController::loadFromSD"
  /\ ~sdRules.exists
  /\ ~ret
  /\ ruleCount = 2
  /\ \E k \in 1 .. ruleCount : rules[k].currentlyTriggered

\* C18: a load that opens a file written by a successful saveToSD returns
\* true and leaves exactly the saved sequence, field for field and in order,
\* with its count (rules and schedules, from empty to full capacity); and a
\* successful saveToSD leaves a file of exactly the count byte and the
\* current records, whatever the card held before.
C18_RoundTrip ==
  [][/\ (RulesLoadStep /\ saved.rulesOnCard /\ op'[3]) =>
          (ret' /\ rules' = saved.rules /\ ruleCount' = Len(saved.rules))
     /\ (SchedulesLoadStep /\ saved.schedulesOnCard /\ op'[3]) =>
          (ret' /\ schedules' = saved.schedules
             /\ scheduleCount' = Len(saved.schedules))
     /\ (op'[1] = "AutomationController::saveToSD" /\ ret') =>
          (/\ sdRules'.exists
           /\ Len(sdRules'.data) = 1 + ruleCount * SizeofAutomationRule
           /\ sdRules'.data[1] = ruleCount)
     /\ (op'[1] = "ScheduleController::saveToSD" /\ ret') =>
          (/\ sdSchedules'.exists
           /\ Len(sdSchedules'.data) = 1 + scheduleCount * SizeofSchedule
           /\ sdSchedules'.data[1] = scheduleCount)]_vars

\* C18 witness: a full rule collection with a triggered rule whose trigger
\* time needs two bytes has been saved over an earlier file and loaded back
C18_Witness ==
  /\ op[1] = "AutomationController::loadFromSD" /\ op[3]
  /\ ret
  /\ saved.rulesOnCard
  /\ ruleCount = MAX_AUTOMATION_RULES
  /\ rules = saved.rules
  /\ \E k \in 1 .. ruleCount :
        rules[k].currentlyTriggered /\ rules[k].lastTriggerTime >= U8

(***************************************************************************)
(* Properties of rule and schedule management                              *)
(***************************************************************************)
AddRuleStep == op'[1] = "addRule"
AddScheduleStep == op'[1] = "addSchedule"
\* the last stored rule is the one addRule was just called for
AppendedRule(r, args) ==
  /\ r.relayId = args[2] /\ r.triggerType = args[3] /\ r.action = args[4]
  /\ r.threshold = args[5]
  /\ r.enabled /\ ~r.currentlyTriggered /\ r.lastTriggerTime = 0

\* C19: addRule returns false and leaves the rule count and every stored
\* rule unchanged when the rule count equals the capacity or the relay id is
\* >= RELAY_COUNT; otherwise it returns true, keeps the stored rules and
\* appends one rule for its arguments at the end with enabled = true,
\* currentlyTriggered = false and lastTriggerTime = 0.
C19_AddRule ==
  [][AddRuleStep =>
       IF ruleCount = MAX_AUTOMATION_RULES \/ op'[2] >= RELAY_COUNT
         THEN ~ret' /\ ruleCount' = ruleCount /\ rules' = rules
         ELSE /\ ret'
              /\ ruleCount' = ruleCount + 1
              /\ Len(rules') = ruleCount'
              /\ SubSeq(rules', 1, ruleCount) = rules
              /\ AppendedRule(rules'[ruleCount'], op')]_vars

\* C19 witness: the array is full, one of its rules is triggered, and
\* addRule has just been refused for a valid relay
C19_Witness ==
  /\ op[1] = "addRule" /\ op[2] < RELAY_COUNT
  /\ ~ret
  /\ ruleCount = MAX_AUTOMATION_RULES
  /\ \E k \in 1 .. ruleCount : rules[k].currentlyTriggered

\* hours, minutes and relay id of a stored schedule are in range
ScheduleInRange(sc) ==
  /\ sc.onHour \in 0 .. 23 /\ sc.offHour \in 0 .. 23
  /\ sc.onMinute \in 0 .. 59 /\ sc.offMinute \in 0 .. 59
  /\ sc.relayId \in 0 .. (RELAY_COUNT - 1)

\* C20: addSchedule returns false and leaves the schedule count and every
\* stored schedule unchanged when the schedule count equals the capacity,
\* the relay id is >= RELAY_COUNT, an hour is > 23 or a minute is > 59; and
\* after every addSchedule, removeSchedule, setScheduleEnabled and
\* clearAllSchedules, starting from the empty array, every stored schedule
\* has hours in 0..23, minutes in 0..59 and a relay id below RELAY_COUNT.
C20_AddSchedule ==
  [][/\ (/\ AddScheduleStep
         /\ \/ scheduleCount = MAX_SCHEDULES
            \/ op'[2] >= RELAY_COUNT
            \/ op'[3] > 23 \/ op'[5] > 23
            \/ op'[4] > 59 \/ op'[6] > 59) =>
          (~ret' /\ scheduleCount' = scheduleCount /\ schedules' = schedules)
     /\ Len(schedules') = scheduleCount'
     /\ \A k \in 1 .. scheduleCount' : ScheduleInRange(schedules'[k])]_vars

\* C20 witness: schedules are stored, one of them disabled, and addSchedule
\* has just been refused for an off minute of 60 with room left in the array
C20_Witness ==
  /\ op[1] = "addSchedule" /\ op[6] = 60 /\ op[2] < RELAY_COUNT
  /\ op[3] <= 23 /\ op[4] <= 59 /\ op[5] <= 23
  /\ ~ret
  /\ scheduleCount \in 1 .. (MAX_SCHEDULES - 1)
  /\ \E k \in 1 .. scheduleCount : ~schedules[k].enabled

(***************************************************************************)
(* Properties of removal by index                                          *)
(***************************************************************************)
\* after is before without the entry of slot index, the others in order
WithoutSlot(before, after, index) ==
  /\ Len(after) = Len(before) - 1
  /\ \A k \in 1 .. Len(after) : after[k] = IF k <= index THEN before[k] ELSE before[k + 1]

\* C21: removeRule and removeSchedule with index < count delete exactly the
\* entry of that slot, move every later entry down by one slot with all its
\* fields and in the same order, decrement the count and return true; with
\* index >= count they return false and change nothing.
C21_RemoveShifts ==
  [][/\ op'[1] = "removeRule" =>
          IF op'[2] < ruleCount
            THEN ret' /\ ruleCount' = ruleCount - 1 /\ WithoutSlot(rules, rules', op'[2])
            ELSE ~ret' /\ ruleCount' = ruleCount /\ rules' = rules
     /\ op'[1] = "removeSchedule" =>
          IF op'[2] < scheduleCount
            THEN /\ ret' /\ scheduleCount' = scheduleCount - 1
                 /\ WithoutSlot(schedules, schedules', op'[2])
            ELSE ~ret' /\ scheduleCount' = scheduleCount /\ schedules' = schedules]_vars

\* C21 witness: slot 0 has just been removed from three rules; the two
\* rules left differ, and two different schedules are stored
C21_Witness ==
  /\ op = <<"removeRule", 0>> /\ ret
  /\ ruleCount = MaxHeld - 1
  /\ rules[1] # rules[2]
  /\ scheduleCount = 2 /\ schedules[1] # schedules[2]

(***************************************************************************)
(* Properties of rule actions                                              *)
(***************************************************************************)
\* rule k (from 1) has a rising edge in the evaluate step being taken
Rising(k) ==
  /\ rules[k].enabled /\ ~rules[k].currentlyTriggered
  /\ evaluateCondition(rules[k], op'[3])
\* the action of rule k cannot be executed in the step being taken
Inexecutable(k) == rules[k].relayId >= RELAY_COUNT \/ ~op'[2]
\* the rules that get an invocation in the step being taken, in slot order
Invoking == { k \in 1 .. ruleCount : Rising(k) /\ ~Inexecutable(k) }

\* C22: in evaluate, a rule whose relay id is invalid, or any rule when the
\* callback is null, gets no callback invocation; every rule of the pass,
\* before and after it, still gets its flag and trigger time updated from
\* its own condition, and every other rising rule that can be executed
\* still gets exactly one invocation, in slot order.
C22_SilentNoOp ==
  [][EvaluateStep =>
       /\ \A c \in 1 .. Len(calls') : (calls'[c].src + 1) \in Invoking
       /\ \A k \in Invoking : Cardinality({c \in 1 .. Len(calls') : calls'[c].src = k - 1}) = 1
       /\ \A c, d \in 1 .. Len(calls') : c < d => calls'[c].src < calls'[d].src
       /\ ruleCount' = ruleCount
       /\ \A k \in 1 .. ruleCount :
            /\ rules[k].enabled =>
                 rules'[k].currentlyTriggered = evaluateCondition(rules[k], op'[3])
            /\ Rising(k) => rules'[k].lastTriggerTime = millis
            /\ (~rules[k].enabled \/ ~Rising(k)) =>
                 rules'[k] = [rules[k] EXCEPT
                                !.currentlyTriggered = rules'[k].currentlyTriggered]]_vars

\* C22 witness: the first rule, read from the card, names a relay the board
\* does not have; it has just risen without an invocation and the rule
\* after it has risen too and got its invocation
C22_Witness ==
  /\ op[1] = "evaluate" /\ op[2]
  /\ ruleCount = 2
  /\ rules[1].relayId >= RELAY_COUNT
  /\ rules[1].currentlyTriggered /\ rules[1].lastTriggerTime = millis
  /\ rules[2].currentlyTriggered
  /\ Len(calls) = 1 /\ calls[1].src = 1 /\ calls[1].relayId = rules[2].relayId

\* the value executeAction requests for a rule, given the relay states
Requested(rule, relayStates) ==
  CASE rule.action = "TURN_ON" -> TRUE
    [] rule.action = "TURN_OFF" -> FALSE
    [] rule.action = "TOGGLE" -> ~relayStates[rule.relayId]

\* C23: every callback invocation evaluate makes for a rising rule passes
\* the rule's relay id and, as state, true for TURN_ON, false for TURN_OFF
\* and for TOGGLE the complement of the entry of the rule's relay in the
\* relayStates array executeAction is given.
C23_ActionValue ==
  [][EvaluateStep =>
       \A c \in 1 .. Len(calls') :
         LET rule == rules[calls'[c].src + 1] IN
           /\ Rising(calls'[c].src + 1)
           /\ calls'[c].relayId = rule.relayId
           /\ calls'[c].state = Requested(rule, calls'[c].given)]_vars

\* C23 witness: a toggle rule for relay 1 has just requested off, relay 1
\* being the only relay that was on
C23_Witness ==
  /\ op[1] = "evaluate" /\ op[2]
  /\ Len(calls) = 1
  /\ calls[1].given[1] /\ ~calls[1].given[0]
  /\ rules[calls[1].src + 1].action = "TOGGLE"
  /\ calls[1].relayId = 1 /\ ~calls[1].state

\* the invocations of the step being taken that toggle rules made
ToggleCalls == { c \in 1 .. Len(calls') : rules[calls'[c].src + 1].action = "TOGGLE" }

InRange(k) == rules[k].threshold <= op'[3] /\ op'[3] <= rules[k].thresholdHigh
\* the enabled range rules
RangeRules == { k \in 1 .. ruleCount : rules[k].triggerType = "TEMP_RANGE" /\ rules[k].enabled }

\* C25: after every evaluate, the flag of an enabled TEMP_RANGE rule says
\* whether threshold <= currentTemp <= thresholdHigh, whatever the flag and
\* the hysteresis were: a reading outside the closed range clears the flag,
\* and a reading inside it fires the rule (one invocation, given a callback)
\* exactly when the flag was clear.
C25_RangeExact ==
  [][EvaluateStep =>
       \A k \in RangeRules :
         /\ rules'[k].currentlyTriggered = InRange(k)
         /\ (\E c \in 1 .. Len(calls') : calls'[c].src = k - 1)
              = (InRange(k) /\ ~rules[k].currentlyTriggered /\ op'[2])]_vars

\* C25 witness: a range rule for 26..36 with hysteresis 2 that fired
\* earlier has just been cleared by the reading 37
C25_Witness ==
  /\ op[1] = "evaluate" /\ op[3] = 37
  /\ ruleCount >= 1
  /\ rules[1].triggerType = "TEMP_RANGE" /\ rules[1].enabled
  /\ rules[1].threshold = 26 /\ rules[1].thresholdHigh = 36 /\ rules[1].hysteresis = 2
  /\ rules[1].lastTriggerTime = millis
  /\ ~rules[1].currentlyTriggered
  /\ calls = <<>>

\* C26 as stated: every stored TEMP_RANGE rule has threshold <=
\* thresholdHigh, whatever 8-bit threshold addRule was given.
C26_AsStated ==
  \A k \in 1 .. ruleCount :
    rules[k].triggerType = "TEMP_RANGE" => rules[k].threshold <= rules[k].thresholdHigh

(***************************************************************************)
(* Properties of cancelTimer and the timer count                           *)
(***************************************************************************)
CancelStep == op'[1] = "cancelTimer"

\* the timers of the array that are disabled: those cancelTimer has
\* disabled since the last update (an expired timer leaves the array in the
\* update that disables it)
Disabled(ts) == {k \in DOMAIN ts : ~ts[k].enabled}

\* C27: cancelTimer(relayId) returns true exactly when the relay has an
\* enabled timer at the call; after it the relay has no enabled timer and
\* the timer found is disabled; the call invokes no callback.  A disabled
\* timer is never enabled again and never fires: update invokes the callback
\* only for timers that were enabled at the call, drops the disabled ones,
\* and a timer that has left the array never returns (new timers get fresh
\* identities).
C27_CancelSilences ==
  [][/\ CancelStep =>
          /\ ret' = (LiveFor(timers, op'[2]) # {})
          /\ LiveFor(timers', op'[2]) = {}
          /\ Len(timers') = Len(timers)
          /\ \A k \in LiveFor(timers, op'[2]) : timers'[k].id = timers[k].id
          /\ calls' = <<>>
          /\ fired' = fired
     /\ \A k \in Disabled(timers) :
          /\ timers[k].id \notin fired'
          /\ \A j \in DOMAIN timers' : timers'[j].id = timers[k].id => ~timers'[j].enabled
          /\ \A c \in 1 .. Len(calls') :
               calls'[c].by = "timer" => calls'[c].timer.id # timers[k].id
     /\ UpdateStep => Disabled(timers') = {}
     /\ \A j \in DOMAIN timers' :
          timers'[j].id \in Ids(timers) \/ (timers'[j].id = nextId /\ nextId' > nextId)
     /\ \A id \in Ids(timers) \cup fired : id < nextId]_vars

\* C27 witness: cancelTimer has just returned true for relay 1, whose timer
\* was already due for the next update and now stays in its slot, disabled
C27_Witness ==
  /\ op = <<"cancelTimer", 1>> /\ ret
  /\ calls = <<>>
  /\ \E k \in DOMAIN timers :
       /\ timers[k].relayId = 1 /\ ~timers[k].enabled
       /\ (realMillis - timers[k].born) \div 1000 >= timers[k].duration
       /\ timers[k].id \notin fired

\* C28 as stated: in every reachable state getTimerCount() (timerCount) is
\* the number of enabled timers.
C28_AsStated == timerCount = Cardinality(EnabledTimers)

\* C29 as stated: with the two default rules that begin() installs when
\* loading fails, after any evaluate with a callback the most recent
\* callback for the guest room relay asked for on whenever the latest
\* reading is above 28, and for off whenever it is below 26.
C29_AsStated ==
  (op[1] = "evaluate" /\ ruleCount = 2) =>
     /\ lastTemperature > TEMP_THRESHOLD_HIGH => guestRoomAsked = "on"
     /\ lastTemperature < TEMP_THRESHOLD_HIGH - TEMP_HYSTERESIS => guestRoomAsked = "off"

\* C30: addTimer called with timerCount = MAX_TIMERS returns false and
\* leaves every timer as it was, the relay's enabled timer included, also
\* when fewer than MAX_TIMERS timers are enabled and when the new timer
\* would replace one; timerCount counts the cancelled slots too: neither
\* cancelTimer nor addTimer's own cancel frees a slot.
C30_FullBeforeCancel ==
  [][/\ (op'[1] = "addTimer" /\ timerCount = MAX_TIMERS) =>
          (~ret' /\ timers' = timers /\ timerCount' = timerCount)
     /\ (op'[1] = "addTimer" /\ ret') =>
          (timerCount' = timerCount + 1 /\ Len(timers') = timerCount')
     /\ CancelStep => (timerCount' = timerCount /\ Len(timers') = timerCount')]_vars

\* C30 witness: the array is full although only one timer is enabled, the
\* one of relay 0, and addTimer for relay 0 has just been refused
C30_Witness ==
  /\ op[1] = "addTimer" /\ op[2] = 0
  /\ ~ret
  /\ timerCount = MAX_TIMERS
  /\ Cardinality(EnabledTimers) = 1
  /\ LiveFor(timers, 0) # {}


(***************************************************************************)
(* Properties of update called for ever                                    *)
(***************************************************************************)
\* the longest duration the elapsed seconds can reach: floor((2^w - 1) / 1000)
LongestTimer == (MillisMod - 1) \div 1000
\* the timer with identity id is in the list
Held(id) == \E k \in DOMAIN timers : timers[k].id = id
\* the timer with identity id is in the list, enabled, with a duration for
\* which Fits holds
Pending(id, Fits(_)) ==
  \E k \in DOMAIN timers : timers[k].id = id /\ timers[k].enabled /\ Fits(timers[k].duration)
Reachable(d) == d <= LongestTimer
\* a call of update is sure to come while the elapsed time is between the
\* duration and the end of the range of the counter
Caught(d) == 1000 * d + MaxStep <= MillisMod

\* C31 as stated: with update called for ever and the counter advancing by
\* less than 2^w ms between two calls, every enabled timer of at most
\* floor((2^w - 1) / 1000) seconds eventually leaves the list.
C31_AsStated ==
  \A id \in 1 .. (MaxLiveAdds + 1) : Pending(id, Reachable) ~> ~Held(id)

\* C31: with update called for ever and the counter advancing by at most
\* 2^w - 1000 * duration ms between two calls, an enabled timer eventually
\* leaves the list (fired, cancelled or replaced); a timer of more than
\* floor((2^w - 1) / 1000) seconds is never expired by update.
C31_TimerLeaves ==
  /\ \A id \in 1 .. (MaxLiveAdds + 1) : Pending(id, Caught) ~> ~Held(id)
  /\ [][UpdateStep =>
          \A k \in DOMAIN timers :
            (timers[k].enabled /\ ~Reachable(timers[k].duration)) =>
               /\ timers[k].id \notin fired'
               /\ \E j \in DOMAIN timers' : timers'[j] = timers[k]]_vars

\* C31 witness: update has expired a timer after the counter wrapped, and
\* a timer too long for the counter is still enabled although the counter
\* has wrapped since it was started
C31_Witness ==
  /\ op[1] = "update"
  /\ fired # {}
  /\ \E k \in DOMAIN timers :
       /\ timers[k].enabled
       /\ ~Reachable(timers[k].duration)
       /\ millis < timers[k].startTime

(***************************************************************************)
(* Properties of a wrapping schedule for a single day                      *)
(***************************************************************************)
\* the schedule wraps midnight and is for the single day d
NightOf(sc, d) == OffMinutes(sc) < OnMinutes(sc) /\ sc.daysOfWeek = 2 ^ (d - 1)
\* minutes since midnight the RTC reports
NowMinutes == rtcNow.hour * 60 + rtcNow.minute

\* C32: an update that evaluates an enabled wrapping schedule for the single
\* day d leaves it active exactly when the RTC's day is d and the time is
\* in [00:00, off) or in [on, 24:00); on any other day, the day after d
\* included, it leaves it inactive at every time, and a schedule that was
\* active gets its OFF callback in that update, before the off time.
C32_CurrentDayOnly ==
  [][ScheduleUpdateStep =>
       \A k \in 1 .. scheduleCount : \A d \in 1 .. 7 :
         (schedules[k].enabled /\ NightOf(schedules[k], d)) =>
            /\ schedules'[k].isActive =
                 (/\ rtcNow.dow = d
                  /\ (NowMinutes < OffMinutes(schedules[k])
                        \/ NowMinutes >= OnMinutes(schedules[k])))
            /\ (rtcNow.dow # d /\ schedules[k].isActive /\ op'[2]) =>
                 /\ Len(ScheduleCalls(calls', k - 1)) = 1
                 /\ ~ScheduleCalls(calls', k - 1)[1].state]_vars

\* C32 witness: the Monday night schedule was switched on on Monday and
\* update has just switched it off at 00:01 on Tuesday, before its off time
C32_Witness ==
  /\ op = <<"update", TRUE>>
  /\ scheduleCount = 1
  /\ NightOf(schedules[1], 1)
  /\ rtcNow = [hour |-> 0, minute |-> 1, dow |-> 2]
  /\ NowMinutes < OffMinutes(schedules[1])
  /\ ~schedules[1].isActive
  /\ \E c \in DOMAIN calls : calls[c].by = "schedule" /\ ~calls[c].state

(***************************************************************************)
(* Properties of the minute suppression                                    *)
(***************************************************************************)
\* C33: lastMinute is 0 after construction, and update compares nothing
\* but the minute value with it: an update observing the minute lastMinute
\* holds, whatever the hour and the day and also when it is the first
\* update, invokes no schedule callback and changes no schedule (no
\* isActive flag) and not lastMinute, also when a schedule is due to change;
\* an update that reads a different minute evaluates every enabled schedule.
C33_MinuteOnly ==
  [][/\ op = <<"construct">> => lastMinute = 0
     /\ (UpdateStep /\ rtcNow.minute = lastMinute) =>
          /\ \A k \in DOMAIN calls' : calls'[k].by # "schedule"
          /\ schedules' = schedules
          /\ lastMinute' = lastMinute
     /\ (UpdateStep /\ ~TimeSourceUnavailable /\ rtcNow.minute # lastMinute) =>
          /\ lastMinute' = rtcNow.minute
          /\ \A k \in 1 .. scheduleCount :
               schedules[k].enabled =>
                 schedules'[k].isActive
                   = shouldScheduleBeActive(schedules[k], rtcNow.hour, rtcNow.minute,
                                            rtcNow.dow)]_vars

\* C33 witness: the night schedule was switched on in an earlier hour; the
\* update at 06:00 has just read the minute 0 that lastMinute held and left
\* the schedule active beyond its off time
C33_Witness ==
  /\ op[1] = "update"
  /\ ~TimeSourceUnavailable
  /\ rtcNow.hour = 6 /\ rtcNow.minute = 0 /\ lastMinute = 0
  /\ \E k \in 1 .. scheduleCount :
       /\ schedules[k].enabled
       /\ schedules[k].isActive
       /\ OffMinutes(schedules[k]) = 6 * 60
       /\ ~shouldScheduleBeActive(schedules[k], rtcNow.hour, rtcNow.minute, rtcNow.dow)

(***************************************************************************)
(* Properties of edges whose action cannot be executed                     *)
(***************************************************************************)
\* rule k is triggered and its condition, with the hysteresis, still holds
\* for the reading of the step being taken
Holding(k) ==
  /\ rules[k].enabled /\ rules[k].currentlyTriggered
  /\ evaluateCondition(rules[k], op'[3])

\* C34: an evaluate in which a rule's condition goes from false to true
\* while the callback is null or the rule's relay id is invalid still sets
\* the rule's triggered flag, without an invocation; a rule whose flag is
\* set gets no invocation from any evaluate, whatever callback is given,
\* and keeps the flag while its condition holds; evaluate clears the flag
\* only when the condition is false.  So the rule gets its first invocation
\* only after the condition has gone false and true again.
C34_EdgeConsumed ==
  [][EvaluateStep =>
       \A k \in 1 .. ruleCount :
         /\ (Rising(k) /\ Inexecutable(k)) =>
              (rules'[k].currentlyTriggered /\ CallsOf(calls', k - 1) = 0)
         /\ Holding(k) =>
              (rules'[k].currentlyTriggered /\ CallsOf(calls', k - 1) = 0)
         /\ rules[k].currentlyTriggered => CallsOf(calls', k - 1) = 0
         /\ (rules[k].currentlyTriggered /\ ~rules'[k].currentlyTriggered) =>
              ~evaluateCondition(rules[k], op'[3])]_vars

\* C34 witness: the guest room rule rose in an evaluate without a callback;
\* the evaluate that has just returned had a callback and a reading that
\* meets the rule's condition, and the guest room relay has still never
\* been asked for anything
C34_Witness ==
  /\ op[1] = "evaluate" /\ op[2]
  /\ automationEnabled
  /\ calls = <<>>
  /\ guestRoomAsked = "none"
  /\ \E k \in 1 .. ruleCount :
       /\ rules[k].relayId = RELAY_GUEST_ROOM
       /\ rules[k].triggerType = "TEMP_HIGH"
       /\ rules[k].enabled /\ rules[k].currentlyTriggered
       /\ op[3] >= rules[k].threshold

(***************************************************************************)
(* Properties of enabling and disabling rules                              *)
(***************************************************************************)
\* C35: setRuleEnabled(index, enabled) sets the enabled flag of the rule in
\* slot index and changes nothing else, and changes nothing at all when
\* index >= ruleCount; it invokes no callback.  evaluate leaves a disabled
\* rule as it is, triggered flag included, and invokes nothing for it.  A
\* rule that is enabled with its flag set, as one disabled while triggered
\* and enabled again is, gets no invocation from an evaluate whose reading
\* meets its condition with the hysteresis, whatever was read meanwhile.
C35_EnableOnly ==
  [][/\ op'[1] = "setRuleEnabled" =>
          /\ calls' = <<>>
          /\ UNCHANGED <<ruleCount, automationEnabled, lastTemperature>>
          /\ op'[2] >= ruleCount => rules' = rules
          /\ op'[2] < ruleCount =>
               /\ rules'[op'[2] + 1].enabled = op'[3]
               /\ rules' = [rules EXCEPT ![op'[2] + 1].enabled = rules'[op'[2] + 1].enabled]
     /\ EvaluateStep =>
          \A k \in 1 .. ruleCount :
            /\ ~rules[k].enabled => (rules'[k] = rules[k] /\ CallsOf(calls', k - 1) = 0)
            /\ Holding(k) => CallsOf(calls', k - 1) = 0]_vars

\* C35 witness: the high temperature rule was disabled while triggered and
\* evaluate has read 25, below the rule's band, meanwhile (an enabled rule
\* would have lost its flag); setRuleEnabled has just enabled the rule
\* again, its flag still set
C35_Witness ==
  /\ op = <<"setRuleEnabled", 0, TRUE>>
  /\ ruleCount >= 1
  /\ rules[1].triggerType = "TEMP_HIGH"
  /\ rules[1].enabled /\ rules[1].currentlyTriggered
  /\ lastTemperature < rules[1].threshold - rules[1].hysteresis


(***************************************************************************)
(* Properties of the operations that invoke no callback                    *)
(***************************************************************************)
\* C36: no operation but update and evaluate invokes the callback, so
\* setScheduleEnabled, removeSchedule and clearAllSchedules invoke none,
\* also for a schedule whose isActive flag is set, and setScheduleEnabled
\* leaves every isActive flag as it is; update leaves a disabled schedule
\* as it is, isActive included, and invokes nothing for it, also when it
\* reads a time outside the schedule's window.
C36_NoOffWithoutUpdate ==
  [][/\ calls' # <<>> => op'[1] \in {"update", "evaluate"}
     /\ op'[1] \in {"setScheduleEnabled", "removeSchedule", "clearAllSchedules"} =>
          calls' = <<>>
     /\ op'[1] = "setScheduleEnabled" =>
          /\ scheduleCount' = scheduleCount
          /\ \A k \in 1 .. scheduleCount : schedules'[k].isActive = schedules[k].isActive
     /\ UpdateStep =>
          \A k \in 1 .. scheduleCount :
            ~schedules[k].enabled =>
               (schedules'[k] = schedules[k] /\ Len(ScheduleCalls(calls', k - 1)) = 0)]_vars

\* C36 witness: the night schedule was disabled while active; the update
\* that has just returned evaluated the schedules at 21:58, outside the
\* window, and the schedule is still active and no OFF was issued
C36_Witness ==
  /\ op = <<"update", TRUE>>
  /\ ~TimeSourceUnavailable
  /\ rtcNow.hour = 21 /\ rtcNow.minute = 58 /\ lastMinute = 58
  /\ calls = <<>>
  /\ scheduleCount = 1
  /\ ~schedules[1].enabled /\ schedules[1].isActive

(***************************************************************************)
(* Properties of the capacity of the collections                           *)
(***************************************************************************)
\* C37: in every reachable state ruleCount <= MAX_AUTOMATION_RULES,
\* scheduleCount <= MAX_SCHEDULES and timerCount <= MAX_TIMERS, whatever
\* was added, removed, cleared, cancelled, loaded (from files with any
\* count byte), evaluated and updated before; the slots written are those
\* below the count, so none at or beyond the capacity is written.
C37_Bounded ==
  /\ ruleCount <= MAX_AUTOMATION_RULES /\ Len(rules) = ruleCount
  /\ scheduleCount <= MAX_SCHEDULES /\ Len(schedules) = scheduleCount
  /\ timerCount <= MAX_TIMERS /\ Len(timers) = timerCount

\* C37 witness: the timers have been filled to their capacity before, and
\* addRule has just been refused with the rule array full
C37_Witness ==
  /\ op[1] = "addRule"
  /\ ~ret
  /\ ruleCount = MAX_AUTOMATION_RULES
  /\ nextId > MAX_TIMERS
====
